---- MODULE Spec2Model ----
(***************************************************************************)
(* Flight-state synchronisation engine of flight-tracker-tui.              *)
(*                                                                         *)
(* The module models the event loop of main.rs (run, handle_key_event,     *)
(* handle_tick, trigger_refresh, handle_api_response), the spawned         *)
(* provider tasks and the bounded result channel between them, and the     *)
(* reconciliation code of app.rs (add_flight, update_flight,               *)
(* apply_schedule_data, apply_position_data) with the history of           *)
(* history.rs.                                                             *)
(*                                                                         *)
(* Encoding.  Option<T> is a sequence of length at most one (<<>> is None, *)
(* <<x>> is Some(x)).  Result<Option<T>, AppError> is a record             *)
(* [ok, val, err].  A String that the code inspects character by character *)
(* (flight numbers, status strings) is a sequence of one-character         *)
(* strings; other strings are opaque.  f64 values are fixed-point integers *)
(* in units of 10^-5.  An Instant is kept as its age in whole seconds      *)
(* (what elapsed().as_secs() returns), saturating at the largest value the *)
(* code compares it with.  A wall-clock reading (Utc::now()) is one token: *)
(* readings are not told apart.                                            *)
(*                                                                         *)
(* The provider clients are abstracted in Spec to the set of outcomes a     *)
(* call can have (data, no data, an error).  The text the user types       *)
(* (input_char, input_backspace, the history cycling of Up/Down) is an     *)
(* input of the Enter key: KeyEnter(text) submits the buffer text.         *)
(*                                                                         *)
(* The caches and the clients have specifications of their own, over       *)
(* variables of their own that Spec leaves at their initial values:        *)
(* CacheSpec (Cache<T> and its clones, cache.rs), PersistSpec              *)
(* (PersistentCache<T> under concurrent set calls, cache.rs) and           *)
(* ClientSpec (the lookups of api/opensky.rs and api/aviationstack.rs over *)
(* their caches).  In these the ttl of a cache and the wall clock are      *)
(* scaled down to a few time units, so that entries expire.  PersistSpec   *)
(* includes the restart of the program on the file the last run left.      *)
(* HistorySpec applies History::add and History::matching to the histories *)
(* History::load can return (history.rs), and CallSpec applies the pure    *)
(* functions from_api_status, normalize_callsign and the record            *)
(* construction of add_flight to sets of inputs.                           *)
(***************************************************************************)
EXTENDS Integers, Sequences, FiniteSets, Bags, TLC

VARIABLES
    mode,             \* App.mode
    should_quit,      \* App.should_quit
    tracked_flights,  \* App.tracked_flights
    selected_index,   \* App.selected_index (0-based, Option)
    loading,          \* App.loading
    last_error,       \* App.last_error
    status_message,   \* App.status_message
    last_api_call,    \* App.last_api_call, as Option<age in seconds>
    history,          \* App.history.entries
    history_file,     \* contents of history.json
    tasks,            \* the spawned provider tasks still running (a bag)
    channel,          \* the messages held by the mpsc channel (api_tx, api_rx)
    spawned,          \* number of tasks spawned so far
    cache_heap,       \* the maps allocated by Cache::new (Arc<RwLock<HashMap>>)
    cache_handles,    \* the Cache values alive: each holds a reference into cache_heap
    cache_written,    \* per key, the latest set made through any Cache value
    cache_last,       \* the latest Cache operation and what it returned
    pc_data,          \* PersistentCache.data, the map behind the Arc<RwLock>
    pc_file,          \* the cache file under the config directory
    pc_now,           \* the wall clock, current_timestamp()
    pc_tasks,         \* per task, where it stands in PersistentCache::set
    pc_written,       \* per key, the latest set made on the persistent cache
    pc_last,          \* the latest completed PersistentCache call
    api_key,          \* AviationStackClient.api_key
    lookups,          \* the provider requests on the network (a bag)
    fetched,          \* per client and key, the latest result fetched without error
    client_last,      \* the latest step of a provider lookup
    h_entries,        \* History.entries of a History value used on its own
    h_adds,           \* number of History::add calls made on it
    h_last,           \* the latest History call and what it returned
    call              \* the latest call of a pure function: name, input, output

engineVars == <<mode, should_quit, tracked_flights, selected_index, loading,
                last_error, status_message, last_api_call, history, history_file,
                tasks, channel, spawned>>

cacheVars == <<cache_heap, cache_handles, cache_written, cache_last>>

persistVars == <<pc_data, pc_file, pc_now, pc_tasks, pc_written, pc_last>>

clientVars == <<api_key, lookups, fetched, client_last>>

historyVars == <<h_entries, h_adds, h_last>>

callVars == <<call>>

\* The state of the provider clients and their caches, and of the parts
\* exercised on their own.
providerVars == <<cacheVars, persistVars, clientVars, historyVars, callVars>>

vars == <<engineVars, providerVars>>

appVars == <<mode, should_quit, tracked_flights, selected_index, loading,
             last_error, status_message, last_api_call, history, history_file>>

----------------------------------------------------------------------------
(* Bounds of the model. *)

\* Total number of provider tasks spawned in one behaviour.
MaxSpawned == 3

\* Capacity of the result channel in the model; the program's value is 32
\* (main.rs:62), scaled down so that a full channel is reached.
ChannelCapacity == 2

(* Program constants. *)

\* App.update_interval_secs
update_interval_secs == 30

\* handle_tick: last.elapsed().as_secs() > 10
ERROR_CLEAR_SECS == 10

\* history.rs MAX_HISTORY_SIZE
MAX_HISTORY_SIZE == 20

----------------------------------------------------------------------------
(* Option and Result *)

None == <<>>
Some(x) == <<x>>
IsSome(o) == o # <<>>
Unwrap(o) == o[1]

Ok(v) == [ok |-> TRUE, val |-> v, err |-> "none"]
Err(e) == [ok |-> FALSE, val |-> None, err |-> e]

\* Result::ok(): Ok(v) -> Some(v), Err(_) -> None
ResultOk(r) == IF r.ok THEN Some(r.val) ELSE None

\* Option<Option<T>>::flatten()
Flatten(oo) == IF IsSome(oo) THEN Unwrap(oo) ELSE None

\* Option::or
OptOr(a, b) == IF IsSome(a) THEN a ELSE b

\* Option::unwrap_or
UnwrapOr(o, d) == IF IsSome(o) THEN Unwrap(o) ELSE d

----------------------------------------------------------------------------
(* Characters *)

LowerLetters == <<"a","b","c","d","e","f","g","h","i","j","k","l","m",
                  "n","o","p","q","r","s","t","u","v","w","x","y","z">>
UpperLetters == <<"A","B","C","D","E","F","G","H","I","J","K","L","M",
                  "N","O","P","Q","R","S","T","U","V","W","X","Y","Z">>

\* The upper-case letter of each lower-case letter, and the converse.
UpperOf == [c \in {LowerLetters[i] : i \in 1..26} |->
              UpperLetters[CHOOSE i \in 1..26 : LowerLetters[i] = c]]
LowerOf == [c \in {UpperLetters[i] : i \in 1..26} |->
              LowerLetters[CHOOSE i \in 1..26 : UpperLetters[i] = c]]

\* char::to_ascii_uppercase / str::to_uppercase on ASCII text
ToUpperChar(c) == IF c \in DOMAIN UpperOf THEN UpperOf[c] ELSE c

\* str::to_lowercase on ASCII text
ToLowerChar(c) == IF c \in DOMAIN LowerOf THEN LowerOf[c] ELSE c

ToUpper(s) == [i \in 1..Len(s) |-> ToUpperChar(s[i])]
ToLower(s) == [i \in 1..Len(s) |-> ToLowerChar(s[i])]

----------------------------------------------------------------------------
(* AppError and its user message (error.rs) *)

\* Variant: the Display text of the error (error.rs:6-13) is shown.
user_message_Display(e) ==
    CASE e = "RateLimited" -> "Rate limit exceeded"
      [] e = "Network"     -> "Network error: {0}"
      [] e = "Parse"       -> "Failed to parse response: {0}"

\* AppError::user_message
user_message(e) ==
    CASE e = "RateLimited" -> "API rate limit reached. Try again later."
      [] e = "Network"     -> "Network error. Check your connection."
      [] e = "Parse"       -> "Failed to parse flight data."

----------------------------------------------------------------------------
(* FlightStatus (flight.rs) *)

FlightStatuses == {"Unknown", "Scheduled", "EnRoute", "Landed", "OnGround",
                   "Delayed", "Cancelled", "NotFound"}

\* Variant: the status string is matched as it is.
from_api_status_Exact(status) ==
    CASE status = <<"s","c","h","e","d","u","l","e","d">> -> "Scheduled"
      [] status = <<"a","c","t","i","v","e">>             -> "EnRoute"
      [] status = <<"e","n","-","r","o","u","t","e">>     -> "EnRoute"
      [] status = <<"l","a","n","d","e","d">>             -> "Landed"
      [] status = <<"d","e","l","a","y","e","d">>         -> "Delayed"
      [] status = <<"c","a","n","c","e","l","l","e","d">> -> "Cancelled"
      [] OTHER                                            -> "Unknown"

\* FlightStatus::from_api_status
from_api_status(status) ==
    LET s == ToLower(status) IN
    CASE s = <<"s","c","h","e","d","u","l","e","d">> -> "Scheduled"
      [] s = <<"a","c","t","i","v","e">>             -> "EnRoute"
      [] s = <<"e","n","-","r","o","u","t","e">>     -> "EnRoute"
      [] s = <<"l","a","n","d","e","d">>             -> "Landed"
      [] s = <<"d","e","l","a","y","e","d">>         -> "Delayed"
      [] s = <<"c","a","n","c","e","l","l","e","d">> -> "Cancelled"
      [] OTHER                                       -> "Unknown"

----------------------------------------------------------------------------
(* Provider data (api/types.rs StateVector, api/aviationstack.rs FlightData). *)
(* Only the fields that app.rs reads are kept.                               *)

\* The aircraft of flight A, in the air and after landing.
SV_Air ==
    [icao24 |-> "a1b2c3", callsign |-> Some("AAL1"),
     longitude |-> Some(-122), latitude |-> Some(37),
     baro_altitude |-> Some(100), on_ground |-> FALSE,
     velocity |-> Some(200), true_track |-> Some(90),
     vertical_rate |-> Some(5), squawk |-> Some("1200")]

SV_Ground ==
    [icao24 |-> "a1b2c3", callsign |-> None,
     longitude |-> Some(-121), latitude |-> Some(38),
     baro_altitude |-> None, on_ground |-> TRUE,
     velocity |-> Some(0), true_track |-> None,
     vertical_rate |-> None, squawk |-> None]

\* The aircraft of flight B, at the gate.
SV_Gate ==
    [icao24 |-> "d4e5f6", callsign |-> Some("BAW2"),
     longitude |-> Some(0), latitude |-> Some(51),
     baro_altitude |-> Some(0), on_ground |-> TRUE,
     velocity |-> None, true_track |-> None,
     vertical_rate |-> None, squawk |-> Some("7000")]

\* The schedule of flight A.
FD_Landed ==
    [flight_status |-> Some(<<"L","a","n","d","e","d">>),
     departure |-> Some([airport |-> Some("San Francisco"), iata |-> Some("SFO"),
                         icao |-> Some("KSFO"), scheduled |-> Some("08:00"),
                         estimated |-> Some("08:45"), actual |-> Some("08:47"),
                         delay |-> Some(45)]),
     arrival |-> Some([airport |-> Some("Heathrow"), iata |-> None,
                       icao |-> Some("EGLL"), scheduled |-> Some("18:00"),
                       estimated |-> None, actual |-> Some("18:30"),
                       delay |-> Some(30)]),
     airline |-> Some([name |-> Some("United")]),
     aircraft |-> Some([registration |-> Some("N12345"), iata |-> None,
                        icao |-> Some("B77W")])]

\* The schedule of flight B.
FD_Delayed ==
    [flight_status |-> Some(<<"D","E","L","A","Y","E","D">>),
     departure |-> Some([airport |-> None, iata |-> None,
                         icao |-> None, scheduled |-> Some("10:00"),
                         estimated |-> Some("10:20"), actual |-> None,
                         delay |-> Some(20)]),
     arrival |-> None,
     airline |-> Some([name |-> None]),
     aircraft |-> None]

\* Another schedule of flight B: both airports, the first without a code.
FD_NoCodes ==
    [FD_Delayed EXCEPT
        !.arrival = Some([airport |-> Some("Heathrow"), iata |-> Some("LHR"),
                          icao |-> None, scheduled |-> None, estimated |-> None,
                          actual |-> None, delay |-> None])]

AppErrorKinds == {"RateLimited", "Network", "Parse"}

\* The errors the position calls end with in this specification.
PositionErrors == {"RateLimited", "Network"}

\* What the position provider can report for a flight number.
StateVectorsOf(flight_number) ==
    IF flight_number = <<"A">> THEN {SV_Air, SV_Ground} ELSE {SV_Gate}

\* What the schedule provider can report for a flight number.
FlightDatasOf(flight_number) ==
    IF flight_number = <<"A">> THEN {FD_Landed} ELSE {FD_Delayed, FD_NoCodes}

\* The outcomes of OpenSkyClient::search_flight / get_state.
PositionResults(flight_number) ==
    {Ok(Some(sv)) : sv \in StateVectorsOf(flight_number)}
        \cup {Ok(None)} \cup {Err(e) : e \in PositionErrors}

\* The outcomes of AviationStackClient::get_flight.  The caller drops the error
\* of this call (main.rs:128), so one kind stands for the three.
ScheduleResults(flight_number) ==
    {Ok(Some(fd)) : fd \in FlightDatasOf(flight_number)}
        \cup {Ok(None)} \cup {Err("Network")}

----------------------------------------------------------------------------
(* Flight (flight.rs) and the reconciliation functions of app.rs *)

\* Utc::now()
UtcNow == "utc"

\* Flight { flight_number, status: NotFound, last_updated: Some(now), ..Default }
NewFlight(flight_number) ==
    [flight_number |-> flight_number, callsign |-> "", icao24 |-> "",
     status |-> "NotFound",
     latitude |-> None, longitude |-> None, altitude_ft |-> None,
     heading |-> None, vertical_rate |-> None, ground_speed_kts |-> None,
     on_ground |-> FALSE, squawk |-> None,
     airline |-> None, aircraft_type |-> None, registration |-> None,
     origin |-> None, destination |-> None,
     departure_scheduled |-> None, departure_estimated |-> None,
     departure_actual |-> None, departure_delay |-> None,
     arrival_scheduled |-> None, arrival_estimated |-> None,
     arrival_actual |-> None, arrival_delay |-> None,
     last_updated |-> Some(UtcNow)]

\* Unit factors, in units of 10^-5 (3.28084 and 1.94384).
METERS_TO_FEET == 328084
MPS_TO_KNOTS == 194384

PositionStatus(on_ground) == IF on_ground THEN "OnGround" ELSE "EnRoute"

\* Variant: a final schedule status (Landed, Cancelled) survives the live data.
apply_position_data_KeepsFinalStatus(flight, sv) ==
    [flight EXCEPT
       !.callsign = UnwrapOr(sv.callsign, ""),
       !.icao24 = sv.icao24,
       !.latitude = sv.latitude,
       !.longitude = sv.longitude,
       !.heading = sv.true_track,
       !.on_ground = sv.on_ground,
       !.squawk = sv.squawk,
       !.status = IF flight.status \in {"Landed", "Cancelled"}
                  THEN flight.status
                  ELSE PositionStatus(sv.on_ground)]

\* Variant: the record is rebuilt from the live data alone.
apply_position_data_RebuildsRecord(flight, sv) ==
    [NewFlight(flight.flight_number) EXCEPT
       !.callsign = UnwrapOr(sv.callsign, ""),
       !.icao24 = sv.icao24,
       !.latitude = sv.latitude,
       !.longitude = sv.longitude,
       !.heading = sv.true_track,
       !.on_ground = sv.on_ground,
       !.squawk = sv.squawk,
       !.status = PositionStatus(sv.on_ground)]

apply_position_data(flight, sv) ==
    \* Option::map of the three unit conversions
    LET feet(a) == IF IsSome(a) THEN Some(Unwrap(a) * METERS_TO_FEET) ELSE None
        fpm(v) == IF IsSome(v) THEN Some(Unwrap(v) * METERS_TO_FEET * 60) ELSE None
        knots(v) == IF IsSome(v) THEN Some(Unwrap(v) * MPS_TO_KNOTS) ELSE None
    IN [flight EXCEPT
          !.callsign = UnwrapOr(sv.callsign, ""),
          !.icao24 = sv.icao24,
          !.latitude = sv.latitude,
          !.longitude = sv.longitude,
          !.altitude_ft = feet(sv.baro_altitude),
          !.heading = sv.true_track,
          !.vertical_rate = fpm(sv.vertical_rate),
          !.ground_speed_kts = knots(sv.velocity),
          !.on_ground = sv.on_ground,
          !.squawk = sv.squawk,
          !.status = PositionStatus(sv.on_ground)]

\* Variant: of the schedule, only the status reaches the record.
apply_schedule_data_StatusOnly(flight, data) ==
    IF IsSome(data.flight_status)
    THEN [flight EXCEPT !.status = from_api_status(Unwrap(data.flight_status))]
    ELSE flight

apply_schedule_data(flight, data) ==
    LET f1 == IF IsSome(data.flight_status)
              THEN [flight EXCEPT !.status = from_api_status(Unwrap(data.flight_status))]
              ELSE flight
        f2 == IF IsSome(data.airline)
              THEN [f1 EXCEPT !.airline = Unwrap(data.airline).name]
              ELSE f1
        f3 == IF IsSome(data.aircraft)
              THEN LET ac == Unwrap(data.aircraft) IN
                   [f2 EXCEPT !.aircraft_type = OptOr(ac.iata, ac.icao),
                              !.registration = ac.registration]
              ELSE f2
        f4 == IF IsSome(data.departure)
              THEN LET dep == Unwrap(data.departure) IN
                   [f3 EXCEPT
                      !.origin = Some([name |-> dep.airport, iata |-> dep.iata,
                                       icao |-> dep.icao]),
                      !.departure_scheduled = dep.scheduled,
                      !.departure_estimated = dep.estimated,
                      !.departure_actual = dep.actual,
                      !.departure_delay = dep.delay]
              ELSE f3
        f5 == IF IsSome(data.arrival)
              THEN LET arr == Unwrap(data.arrival) IN
                   [f4 EXCEPT
                      !.destination = Some([name |-> arr.airport, iata |-> arr.iata,
                                            icao |-> arr.icao]),
                      !.arrival_scheduled = arr.scheduled,
                      !.arrival_estimated = arr.estimated,
                      !.arrival_actual = arr.actual,
                      !.arrival_delay = arr.delay]
              ELSE f4
    IN f5

\* Variant: live data only enriches a record that has a schedule.
BuildFlight_NeedsSchedule(flight_number, state, schedule) ==
    IF IsSome(schedule)
    THEN LET f1 == apply_schedule_data(NewFlight(flight_number), Unwrap(schedule))
         IN IF IsSome(state) THEN apply_position_data(f1, Unwrap(state)) ELSE f1
    ELSE NewFlight(flight_number)

\* Variant: the schedule only enriches a record that has live data.
BuildFlight_NeedsPosition(flight_number, state, schedule) ==
    IF IsSome(state)
    THEN LET f0 == NewFlight(flight_number)
             f1 == IF IsSome(schedule) THEN apply_schedule_data(f0, Unwrap(schedule)) ELSE f0
         IN apply_position_data(f1, Unwrap(state))
    ELSE NewFlight(flight_number)

\* add_flight, lines 187-202: the record built from the two optional inputs.
BuildFlight(flight_number, state, schedule) ==
    LET f0 == NewFlight(flight_number)
        f1 == IF IsSome(schedule) THEN apply_schedule_data(f0, Unwrap(schedule)) ELSE f0
        f2 == IF IsSome(state) THEN apply_position_data(f1, Unwrap(state)) ELSE f1
    IN f2

\* Variant: the ICAO code of an airport is preferred to its IATA code.
RouteOf_IcaoFirst(flight) ==
    IF IsSome(flight.origin) /\ IsSome(flight.destination)
    THEN LET orig == Unwrap(flight.origin)
             dest == Unwrap(flight.destination)
             orig_code == UnwrapOr(OptOr(orig.icao, orig.iata), "???")
             dest_code == UnwrapOr(OptOr(dest.icao, dest.iata), "???")
         IN Some(<<orig_code, dest_code>>)
    ELSE None

\* add_flight, lines 205-212: the route string "{orig}→{dest}", kept as the pair
\* of its two codes.
RouteOf(flight) ==
    IF IsSome(flight.origin) /\ IsSome(flight.destination)
    THEN LET orig == Unwrap(flight.origin)
             dest == Unwrap(flight.destination)
             orig_code == UnwrapOr(OptOr(orig.iata, orig.icao), "???")
             dest_code == UnwrapOr(OptOr(dest.iata, dest.icao), "???")
         IN Some(<<orig_code, dest_code>>)
    ELSE None

----------------------------------------------------------------------------
(* History (history.rs) *)

\* VecDeque::retain(|e| e.flight_number != flight_number)
RECURSIVE Retain(_, _)
Retain(entries, flight_number) ==
    IF entries = <<>> THEN <<>>
    ELSE IF Head(entries).flight_number # flight_number
         THEN <<Head(entries)>> \o Retain(Tail(entries), flight_number)
         ELSE Retain(Tail(entries), flight_number)

\* Variant: the entries in excess are taken from the front.
Truncate_PopFront(entries) ==
    IF Len(entries) > MAX_HISTORY_SIZE
    THEN SubSeq(entries, Len(entries) - MAX_HISTORY_SIZE + 1, Len(entries))
    ELSE entries

\* while len > MAX_HISTORY_SIZE { pop_back() }
Truncate(entries) ==
    IF Len(entries) > MAX_HISTORY_SIZE THEN SubSeq(entries, 1, MAX_HISTORY_SIZE) ELSE entries

\* Variant: the entries of the flight number are left where they are.
HistoryAdd_KeepsOld(entries, flight_number, route) ==
    Truncate(<<[flight_number |-> flight_number, route |-> route]>> \o entries)

\* History::add
HistoryAdd(entries, flight_number, route) ==
    Truncate(<<[flight_number |-> flight_number, route |-> route]>>
             \o Retain(entries, flight_number))

\* str::starts_with
StartsWith(s, prefix) ==
    Len(prefix) <= Len(s) /\ SubSeq(s, 1, Len(prefix)) = prefix

\* History::matching: the prefix is upper-cased, the stored flight numbers are
\* taken as they are.
matching(entries, prefix) ==
    LET prefix_upper == ToUpper(prefix)
    IN SelectSeq(entries, LAMBDA e : StartsWith(e.flight_number, prefix_upper))

\* History::load: the history of the file if it is there and deserializes,
\* History::default() otherwise.  Nothing is removed from, or reordered in,
\* what the file holds.
History_load(file) ==
    IF file.kind = "json" THEN file.entries ELSE <<>>

----------------------------------------------------------------------------
(* Inputs of the model *)

\* The flight numbers the user enters.
FlightNumbers == {<<"A">>, <<"B">>}

\* The buffer texts the user submits with Enter: nothing, or a flight number
\* in either letter case.
InputTexts == {<<>>, <<"a">>, <<"B">>}

\* Seconds that pass between two events.
TimeSteps == {15}

\* What History::load() finds on disk.
InitialHistories == {<<>>}

\* A status message is a pair <<text, flight number>>.
API_ENABLED_MESSAGE == <<"AviationStack API enabled for route data", <<>>>>

Min(a, b) == IF a < b THEN a ELSE b

\* The History::add calls made on a History value used on its own.
MaxAdds == 3

\* Flight numbers "XA", "XB", ... that fill a history file; the first is the
\* most recent.
FillerLetters ==
    <<"A", "B", "C", "D", "E", "F", "G", "H", "I", "J", "K",
      "L", "M", "N", "O", "P", "Q", "R", "S", "T", "U", "V">>

Filled(n) == [i \in 1..n |-> [flight_number |-> <<"X", FillerLetters[i]>>, route |-> None]]

\* What history.json holds when the program starts: it is absent, it does not
\* deserialize, or it is a history: an empty one, one below, one at and one
\* above MAX_HISTORY_SIZE (a file not written by this version of the program),
\* and one that names a flight twice.
HistoryFiles ==
    {[kind |-> "absent", entries |-> <<>>],
     [kind |-> "garbage", entries |-> Filled(2)],
     [kind |-> "json", entries |-> <<>>],
     [kind |-> "json", entries |-> Filled(MAX_HISTORY_SIZE - 1)],
     [kind |-> "json", entries |-> Filled(MAX_HISTORY_SIZE)],
     [kind |-> "json", entries |-> Filled(MAX_HISTORY_SIZE + 2)],
     [kind |-> "json", entries |-> <<[flight_number |-> <<"U", "A">>, route |-> Some("r0")],
                                     [flight_number |-> <<"B", "A">>, route |-> None],
                                     [flight_number |-> <<"U", "A">>, route |-> None]>>]}

\* The flight numbers and routes passed to History::add, and the prefixes
\* passed to History::matching.
HistoryIds == {<<"U", "A">>, <<"B", "A">>, <<"u", "a">>, <<"X", "T">>}
HistoryRoutes == {None, Some("r1")}
HistoryPrefixes == {<<>>, <<"u">>, <<"U", "A">>, <<"X">>, <<"b", "a", "1">>}

HistoryIdle ==
    /\ h_entries = <<>>
    /\ h_adds = 0
    /\ h_last = [op |-> "new", flight_number |-> <<>>, route |-> None,
                 before |-> <<>>, base |-> <<>>, result |-> <<>>]

\* The status words of the schedule provider.
StatusWords ==
    {<<"s","c","h","e","d","u","l","e","d">>, <<"a","c","t","i","v","e">>,
     <<"e","n","-","r","o","u","t","e">>, <<"l","a","n","d","e","d">>,
     <<"d","e","l","a","y","e","d">>, <<"c","a","n","c","e","l","l","e","d">>}

\* A string written in every mix of upper and lower case.
RECURSIVE CaseVariants(_)
CaseVariants(s) ==
    IF s = <<>> THEN {<<>>}
    ELSE {<<c>> \o rest : c \in {ToLowerChar(Head(s)), ToUpperChar(Head(s))},
                          rest \in CaseVariants(Tail(s))}

\* The status strings given to from_api_status: the status words in every
\* letter case, and strings that are none of them: the empty one, parts and
\* extensions of the words, the words with blanks, and the names of the
\* statuses that no status word stands for.
StatusInputs ==
    UNION {CaseVariants(w) : w \in StatusWords}
    \cup {<<>>, <<"a","c","t","i","v">>, <<"a","c","t","i","v","e","d">>,
          <<"l","a","n","d","e","d"," ">>, <<" ","l","a","n","d","e","d">>,
          <<"e","n"," ","r","o","u","t","e">>, <<"e","n","r","o","u","t","e">>,
          <<"e","n","_","r","o","u","t","e">>, <<"c","a","n","c","e","l","e","d">>,
          <<"u","n","k","n","o","w","n">>, <<"i","n","c","i","d","e","n","t">>,
          <<"d","i","v","e","r","t","e","d">>, <<"o","n","g","r","o","u","n","d">>,
          <<"o","n","-","g","r","o","u","n","d">>, <<"O","n","G","r","o","u","n","d">>,
          <<"n","o","t","f","o","u","n","d">>, <<"N","o","t","F","o","u","n","d">>,
          <<"n","o","t"," ","f","o","u","n","d">>}

\* A schedule record whose flight_status is null: the field is an
\* Option<String> (api/aviationstack.rs:35).
FD_NoStatus == [FD_Delayed EXCEPT !.flight_status = None]

\* The inputs of add_flight for a flight not yet tracked.
StateInputs == {None} \cup {Some(sv) : sv \in {SV_Air, SV_Ground, SV_Gate}}
ScheduleInputs == {None} \cup {Some(fd) : fd \in {FD_Landed, FD_Delayed, FD_NoStatus}}

CallIdle == call = [fn |-> "", input |-> <<>>, output |-> <<>>]

----------------------------------------------------------------------------
(* The in-memory cache (cache.rs, Cache<T>) *)

\* A HashMap is a function on the set of its keys.  A CacheEntry is a record
\* [value, age], age being inserted_at.elapsed() in the time units of the
\* specification that uses the cache.
EmptyMap == [k \in {} |-> None]

\* HashMap::insert
MapInsert(map, key, entry) ==
    [k \in DOMAIN map \cup {key} |-> IF k = key THEN entry ELSE map[k]]

\* d time units pass: every Instant held by the map grows older.  Ages stop
\* at cap, chosen above the ttl they are compared with.
MapElapse(map, d, cap) ==
    [k \in DOMAIN map |-> [map[k] EXCEPT !.age = Min(map[k].age + d, cap)]]

\* Cache::new
Cache_new == EmptyMap

\* Variant: the clone gets a map of its own, a copy of the original.
Cache_clone_DeepCopy(heap, ref) ==
    [heap |-> Append(heap, heap[ref]), ref |-> Len(heap) + 1]

\* #[derive(Clone)] on Cache: the Arc is cloned, the new value refers to the
\* same map.
Cache_clone(heap, ref) == [heap |-> heap, ref |-> ref]

\* Variant: the entry is still served when its age equals the ttl.
Cache_get_AtTtl(map, key, ttl) ==
    IF key \in DOMAIN map /\ map[key].age <= ttl
    THEN Some(map[key].value)
    ELSE None

\* Cache::get
Cache_get(map, key, ttl) ==
    IF key \in DOMAIN map /\ map[key].age < ttl
    THEN Some(map[key].value)
    ELSE None

\* Variant: an existing entry keeps its insertion time.
Cache_set_KeepsTime(map, key, value) ==
    MapInsert(map, key, [value |-> value,
                         age |-> IF key \in DOMAIN map THEN map[key].age ELSE 0])

\* Cache::set
Cache_set(map, key, value) == MapInsert(map, key, [value |-> value, age |-> 0])

\* Variant: only the entries older than the ttl are dropped.
Cache_clear_expired_Older(map, ttl) ==
    [k \in {x \in DOMAIN map : map[x].age <= ttl} |-> map[k]]

\* Cache::clear_expired: retain(|_, entry| entry.inserted_at.elapsed() < ttl)
Cache_clear_expired(map, ttl) ==
    [k \in {x \in DOMAIN map : map[x].age < ttl} |-> map[k]]

\* The ttl the cache of CacheSpec is created with.
CacheTtl == 3

\* Ages are told apart up to one unit past the ttl.
AgeCap(ttl) == ttl + 1

\* The Cache values in one behaviour: the one created and its clones.
MaxHandles == 2

CacheKeys == {"k1", "k2"}
CacheValues == {"v1", "v2"}
CacheTimeSteps == {1, 2}

\* The state without any cache operation made.
CacheIdle ==
    /\ cache_heap = <<Cache_new>>
    /\ cache_handles = <<1>>
    /\ cache_written = [k \in CacheKeys |-> None]
    /\ cache_last = [op |-> "new", handle |-> 1, key |-> "", result |-> None]

----------------------------------------------------------------------------
(* The persistent cache (cache.rs, PersistentCache<T>) *)

\* A PersistentEntry is a record [value, inserted_at], inserted_at being the
\* wall-clock second of the insertion.  The cache file is a record
\* [kind, map]: "absent" (no file), "unreadable" (read_to_string fails),
\* "garbage" (contents that do not deserialize, map being what of them still
\* reads as entries) or "json" (a snapshot of map).
FileOf(kind, map) == [kind |-> kind, map |-> map]

\* u64::saturating_sub
SaturatingSub(a, b) == IF a > b THEN a - b ELSE 0

\* Variant: a damaged file is loaded as far as it can be read.
PersistentCache_load_Lenient(file) ==
    IF file.kind \in {"json", "garbage"} THEN file.map ELSE EmptyMap

\* Variant: the entries loaded are stamped with the time of the load.
PersistentCache_load_Restamps(file) ==
    IF file.kind = "json"
    THEN [k \in DOMAIN file.map |-> [file.map[k] EXCEPT !.inserted_at = pc_now]]
    ELSE EmptyMap

\* PersistentCache::new and load: the map is empty unless the file is there,
\* can be read and deserializes.
PersistentCache_load(file) ==
    IF file.kind = "json" THEN file.map ELSE EmptyMap

\* PersistentCache::get
PersistentCache_get(map, key, now, ttl_secs) ==
    IF key \in DOMAIN map /\ SaturatingSub(now, map[key].inserted_at) < ttl_secs
    THEN Some(map[key].value)
    ELSE None

\* PersistentCache::set, lines 116-124: the insert under the write lock
PersistentCache_insert(map, key, value, now) ==
    MapInsert(map, key, [value |-> value, inserted_at |-> now])

\* The ttl the persistent cache of the specifications is created with, in
\* seconds of their wall clock.
PersistTtl == 2

\* The last second of the wall clock.
MaxClock == 3

\* The tasks that call set concurrently.
PersistTasks == {1, 2}

\* The restarts of the program an entry is followed through.
MaxRestarts == 1

\* What PersistentCache::new can find on disk.
InitialFiles ==
    { FileOf("absent", EmptyMap),
      FileOf("unreadable", EmptyMap),
      FileOf("garbage", MapInsert(EmptyMap, "k1", [value |-> "v1", inserted_at |-> 0])),
      FileOf("json", MapInsert(EmptyMap, "k1", [value |-> "v1", inserted_at |-> 0])) }

IdleTask == [pc |-> "idle", key |-> "", contents |-> EmptyMap]

\* The persistent cache constructed over an absent file, no call made.
PersistIdle ==
    /\ pc_file = FileOf("absent", EmptyMap)
    /\ pc_now = 0
    /\ pc_data = PersistentCache_load(pc_file)
    /\ pc_tasks = [t \in PersistTasks |-> IdleTask]
    /\ pc_written = [k \in CacheKeys |-> None]
    /\ pc_last = [op |-> "new", key |-> "", result |-> None]

----------------------------------------------------------------------------
(* The provider clients (api/opensky.rs, api/aviationstack.rs) *)

Digits == {"0", "1", "2", "3", "4", "5", "6", "7", "8", "9"}

\* str::trim on text whose only white space is the space character
RECURSIVE Trim(_)
Trim(s) ==
    IF s = <<>> THEN s
    ELSE IF Head(s) = " " THEN Trim(Tail(s))
    ELSE IF s[Len(s)] = " " THEN Trim(SubSeq(s, 1, Len(s) - 1))
    ELSE s

\* chars().position(|c| c.is_ascii_digit()), 0-based
FirstDigit(s) ==
    IF \E i \in 1..Len(s) : s[i] \in Digits
    THEN Some((CHOOSE i \in 1..Len(s) :
                  s[i] \in Digits /\ \A j \in 1..(i - 1) : s[j] \notin Digits) - 1)
    ELSE None

\* The match of normalize_callsign (opensky.rs:129-161), as pairs
\* <<airline, icao_code>>.
IcaoCodes ==
    { <<"UA", "UAL">>, <<"AA", "AAL">>, <<"DL", "DAL">>, <<"BA", "BAW">>,
      <<"AF", "AFR">>, <<"LH", "DLH">>, <<"EK", "UAE">>, <<"QF", "QFA">>,
      <<"SQ", "SIA">>, <<"CX", "CPA">>, <<"JL", "JAL">>, <<"NH", "ANA">>,
      <<"KL", "KLM">>, <<"IB", "IBE">>, <<"WN", "SWA">>, <<"B6", "JBU">>,
      <<"AS", "ASA">>, <<"F9", "FFT">>, <<"NK", "NKS">>, <<"AC", "ACA">>,
      <<"VS", "VIR">>, <<"TK", "THY">>, <<"EY", "ETD">>, <<"QR", "QTR">>,
      <<"EI", "EIN">>, <<"AY", "FIN">>, <<"SK", "SAS">>, <<"TP", "TAP">>,
      <<"LX", "SWR">>, <<"OS", "AUA">> }

\* The characters of the codes of the table.
Chars(code) ==
    CASE code = "UA" -> <<"U","A">>  [] code = "UAL" -> <<"U","A","L">>
      [] code = "AA" -> <<"A","A">>  [] code = "AAL" -> <<"A","A","L">>
      [] code = "DL" -> <<"D","L">>  [] code = "DAL" -> <<"D","A","L">>
      [] code = "BA" -> <<"B","A">>  [] code = "BAW" -> <<"B","A","W">>
      [] code = "AF" -> <<"A","F">>  [] code = "AFR" -> <<"A","F","R">>
      [] code = "LH" -> <<"L","H">>  [] code = "DLH" -> <<"D","L","H">>
      [] code = "EK" -> <<"E","K">>  [] code = "UAE" -> <<"U","A","E">>
      [] code = "QF" -> <<"Q","F">>  [] code = "QFA" -> <<"Q","F","A">>
      [] code = "SQ" -> <<"S","Q">>  [] code = "SIA" -> <<"S","I","A">>
      [] code = "CX" -> <<"C","X">>  [] code = "CPA" -> <<"C","P","A">>
      [] code = "JL" -> <<"J","L">>  [] code = "JAL" -> <<"J","A","L">>
      [] code = "NH" -> <<"N","H">>  [] code = "ANA" -> <<"A","N","A">>
      [] code = "KL" -> <<"K","L">>  [] code = "KLM" -> <<"K","L","M">>
      [] code = "IB" -> <<"I","B">>  [] code = "IBE" -> <<"I","B","E">>
      [] code = "WN" -> <<"W","N">>  [] code = "SWA" -> <<"S","W","A">>
      [] code = "B6" -> <<"B","6">>  [] code = "JBU" -> <<"J","B","U">>
      [] code = "AS" -> <<"A","S">>  [] code = "ASA" -> <<"A","S","A">>
      [] code = "F9" -> <<"F","9">>  [] code = "FFT" -> <<"F","F","T">>
      [] code = "NK" -> <<"N","K">>  [] code = "NKS" -> <<"N","K","S">>
      [] code = "AC" -> <<"A","C">>  [] code = "ACA" -> <<"A","C","A">>
      [] code = "VS" -> <<"V","S">>  [] code = "VIR" -> <<"V","I","R">>
      [] code = "TK" -> <<"T","K">>  [] code = "THY" -> <<"T","H","Y">>
      [] code = "EY" -> <<"E","Y">>  [] code = "ETD" -> <<"E","T","D">>
      [] code = "QR" -> <<"Q","R">>  [] code = "QTR" -> <<"Q","T","R">>
      [] code = "EI" -> <<"E","I">>  [] code = "EIN" -> <<"E","I","N">>
      [] code = "AY" -> <<"A","Y">>  [] code = "FIN" -> <<"F","I","N">>
      [] code = "SK" -> <<"S","K">>  [] code = "SAS" -> <<"S","A","S">>
      [] code = "TP" -> <<"T","P">>  [] code = "TAP" -> <<"T","A","P">>
      [] code = "LX" -> <<"L","X">>  [] code = "SWR" -> <<"S","W","R">>
      [] code = "OS" -> <<"O","S">>  [] code = "AUA" -> <<"A","U","A">>

\* normalize_callsign, lines 129-161: the code of the airline, the airline
\* itself when the table does not have it.
icao_code(airline) ==
    IF \E p \in IcaoCodes : Chars(p[1]) = airline
    THEN Chars((CHOOSE p \in IcaoCodes : Chars(p[1]) = airline)[2])
    ELSE airline

\* Variant: the flight number is taken as typed.
normalize_callsign_AsTyped(flight_number) ==
    LET split_pos == UnwrapOr(FirstDigit(flight_number), Min(Len(flight_number), 2))
    IN IF split_pos = 0
       THEN flight_number
       ELSE icao_code(SubSeq(flight_number, 1, split_pos))
                \o SubSeq(flight_number, split_pos + 1, Len(flight_number))

\* normalize_callsign (opensky.rs:115-164) on ASCII text
normalize_callsign(flight_number) ==
    LET upper     == ToUpper(Trim(flight_number))
        split_pos == UnwrapOr(FirstDigit(upper), Min(Len(upper), 2))
    IN IF split_pos = 0
       THEN upper
       ELSE icao_code(SubSeq(upper, 1, split_pos))
                \o SubSeq(upper, split_pos + 1, Len(upper))

\* get_flight, line 100: flight_number.trim().to_uppercase().replace(' ', "")
RECURSIVE RemoveSpaces(_)
RemoveSpaces(s) ==
    IF s = <<>> THEN <<>>
    ELSE IF Head(s) = " " THEN RemoveSpaces(Tail(s))
    ELSE <<Head(s)>> \o RemoveSpaces(Tail(s))

flight_iata(flight_number) == RemoveSpaces(ToUpper(Trim(flight_number)))

\* The cache key of a lookup: search_flight line 31, get_state line 76,
\* get_flight line 100.
LookupKey(fn, input) ==
    CASE fn = "search_flight" -> normalize_callsign(input)
      [] fn = "get_state"     -> ToLower(input)
      [] fn = "get_flight"    -> flight_iata(input)

\* The client a lookup function belongs to.
ClientOf(fn) == IF fn = "get_flight" THEN "aviationstack" ELSE "opensky"

\* Variant: a cached "no data" is not served, the lookup goes to the network.
StartLookup_RefetchesNoData(fn, has_key, cached) ==
    IF fn = "get_flight" /\ ~has_key
    THEN [phase |-> "nokey", result |-> Ok(None)]
    ELSE IF IsSome(cached) /\ IsSome(Unwrap(cached))
         THEN [phase |-> "hit", result |-> Ok(Unwrap(cached))]
         ELSE [phase |-> "sent", result |-> Ok(None)]

\* Variant: the cache is consulted before the credentials.
StartLookup_CacheFirst(fn, has_key, cached) ==
    IF IsSome(cached)
    THEN [phase |-> "hit", result |-> Ok(Unwrap(cached))]
    ELSE IF fn = "get_flight" /\ ~has_key
         THEN [phase |-> "nokey", result |-> Ok(None)]
         ELSE [phase |-> "sent", result |-> Ok(None)]

\* A lookup up to its request (search_flight lines 31-46, get_state 76-95,
\* get_flight 94-112): it returns "no data" without credentials (get_flight
\* only), returns what the cache holds for the key, or sends the request.
StartLookup(fn, has_key, cached) ==
    IF fn = "get_flight" /\ ~has_key
    THEN [phase |-> "nokey", result |-> Ok(None)]
    ELSE IF IsSome(cached)
         THEN [phase |-> "hit", result |-> Ok(Unwrap(cached))]
         ELSE [phase |-> "sent", result |-> Ok(None)]

\* The requests on the network at one time.
MaxInFlight == 2

\* What the user and the engine look up: flight numbers as typed, transponder
\* ids as the provider spells them.
LookupInputs(fn) ==
    CASE fn = "search_flight" -> {<<"u","a","1">>, <<" ","U","A","L","1">>}
      [] fn = "get_state"     -> {<<"A","1">>, <<"a","1">>}
      [] fn = "get_flight"    -> {<<"u","a"," ","1">>, <<"U","A","1">>}

\* What a request can come back with: a record, no record, or an error
\* (a failed send, HTTP 429, a body that does not parse).
Responses(fn) ==
    {Ok(None)} \cup {Err(e) : e \in AppErrorKinds}
    \cup {Ok(Some(d)) : d \in IF fn = "get_flight" THEN {"schedule1"}
                               ELSE {"state1", "state2"}}

\* The schedule cache file a client can find at start.
ClientFiles ==
    { FileOf("absent", EmptyMap),
      FileOf("json", MapInsert(EmptyMap, <<"U","A","1">>,
                               [value |-> Some("schedule1"), inserted_at |-> 0])) }

\* The clients as constructed, no lookup made.
\* The numbers that follow an airline designator.
FlightDigits == {<<"1">>, <<"1","2","3">>, <<"0","0","7">>}

\* A string with blanks before and after it.
Padded(s) == {s, <<" ">> \o s, s \o <<" ">>, <<" ", " ">> \o s \o <<" ">>}

\* The flight numbers given to normalize_callsign: every designator of the
\* table followed by a number, and, in every letter case and with blanks
\* around them: a known and an unknown airline, a designator with a digit, a
\* callsign that already has a three-letter code, and strings with one letter,
\* with no letter, with no digit, with a blank inside, and the empty one.
NormalizeInputs ==
    {Chars(p[1]) \o n : p \in IcaoCodes, n \in FlightDigits}
    \cup UNION {Padded(v) :
                  v \in UNION {CaseVariants(s) :
                                 s \in {<<"u","a","1","2">>, <<"b","6","1">>,
                                        <<"x","y","1","2">>, <<"u","a","l","1","2">>,
                                        <<"u","1">>, <<"1","2","3">>, <<>>, <<"u","a">>,
                                        <<"u","a","x">>, <<"u"," ","a","1","2">>,
                                        <<"x">>}}}

ClientIdle ==
    /\ api_key = None
    /\ lookups = EmptyBag
    /\ fetched = [opensky |-> EmptyMap, aviationstack |-> EmptyMap]
    /\ client_last = [fn |-> "", key |-> <<>>, phase |-> "new", result |-> Ok(None)]

----------------------------------------------------------------------------
(* Initial state: App::new() and the locals of run() before the loop. *)

Init ==
    /\ mode = "Input"
    /\ should_quit = FALSE
    /\ tracked_flights = <<>>
    /\ selected_index = None
    /\ loading = FALSE
    /\ last_error = None
    /\ status_message \in {None, Some(API_ENABLED_MESSAGE)}
    /\ last_api_call = None
    /\ history \in InitialHistories
    /\ history_file = history
    /\ tasks = EmptyBag
    /\ channel = <<>>
    /\ spawned = 0
    /\ CacheIdle
    /\ PersistIdle
    /\ ClientIdle
    /\ HistoryIdle
    /\ CallIdle

----------------------------------------------------------------------------
(* App methods (app.rs) *)

\* Variant: only the record added last is compared.
IsTracked_LastOnly(flights, flight_number) ==
    flights # <<>> /\ flights[Len(flights)].flight_number = flight_number

\* tracked_flights.iter().any(|f| f.flight_number == flight_number)
IsTracked(flights, flight_number) ==
    \E i \in 1..Len(flights) : flights[i].flight_number = flight_number

\* iter_mut().find(|f| f.flight_number == flight_number): the position of the
\* first record with that number, if there is one
FindFlight(flights, flight_number) ==
    LET found == {i \in 1..Len(flights) : flights[i].flight_number = flight_number}
    IN IF found = {} THEN None
       ELSE Some(CHOOSE i \in found : \A j \in found : i <= j)

\* Vec::remove(index), index 0-based
RemoveAt(flights, index) ==
    SubSeq(flights, 1, index) \o SubSeq(flights, index + 2, Len(flights))

\* Variant: a tracked flight is put at the front of the history again.
add_flight_TouchesHistory(flight_number, state, schedule) ==
    LET flight == BuildFlight(flight_number, state, schedule)
        entries == HistoryAdd(history, flight_number, RouteOf(flight))
    IN /\ history' = entries
       /\ history_file' = entries
       /\ IF IsTracked(tracked_flights, flight_number)
          THEN /\ status_message' = Some(<<"Flight {} is already tracked", flight_number>>)
               /\ UNCHANGED <<tracked_flights, selected_index>>
          ELSE /\ tracked_flights' = Append(tracked_flights, flight)
               /\ selected_index' = Some(Len(tracked_flights))
               /\ UNCHANGED status_message

\* App::add_flight
add_flight(flight_number, state, schedule) ==
    IF IsTracked(tracked_flights, flight_number)
    THEN /\ status_message' = Some(<<"Flight {} is already tracked", flight_number>>)
         /\ UNCHANGED <<tracked_flights, selected_index, history, history_file>>
    ELSE LET flight == BuildFlight(flight_number, state, schedule)
             entries == HistoryAdd(history, flight_number, RouteOf(flight))
         IN /\ history' = entries
            /\ history_file' = entries
            /\ tracked_flights' = Append(tracked_flights, flight)
            /\ selected_index' = Some(Len(tracked_flights))
            /\ UNCHANGED status_message

\* Variant: a lookup that finds no aircraft marks the record as not found.
update_flight_NoDataIsNotFound(flight_number, state) ==
    /\ tracked_flights' =
         IF IsSome(FindFlight(tracked_flights, flight_number))
         THEN LET i == Unwrap(FindFlight(tracked_flights, flight_number))
                  f0 == tracked_flights[i]
                  f1 == IF IsSome(state) THEN apply_position_data(f0, Unwrap(state))
                        ELSE [f0 EXCEPT !.status = "NotFound"]
              IN [tracked_flights EXCEPT ![i] = [f1 EXCEPT !.last_updated = Some(UtcNow)]]
         ELSE tracked_flights
    /\ UNCHANGED <<selected_index, status_message, history, history_file>>

\* Variant: a result for a flight that is not tracked creates its record.
update_flight_Recreates(flight_number, state) ==
    /\ tracked_flights' =
         IF IsSome(FindFlight(tracked_flights, flight_number))
         THEN LET i == Unwrap(FindFlight(tracked_flights, flight_number))
                  f0 == tracked_flights[i]
                  f1 == IF IsSome(state) THEN apply_position_data(f0, Unwrap(state)) ELSE f0
              IN [tracked_flights EXCEPT ![i] = [f1 EXCEPT !.last_updated = Some(UtcNow)]]
         ELSE Append(tracked_flights, BuildFlight(flight_number, state, None))
    /\ UNCHANGED <<selected_index, status_message, history, history_file>>

\* App::update_flight
update_flight(flight_number, state) ==
    /\ tracked_flights' =
         IF IsSome(FindFlight(tracked_flights, flight_number))
         THEN LET i == Unwrap(FindFlight(tracked_flights, flight_number))
                  f0 == tracked_flights[i]
                  f1 == IF IsSome(state) THEN apply_position_data(f0, Unwrap(state)) ELSE f0
              IN [tracked_flights EXCEPT ![i] = [f1 EXCEPT !.last_updated = Some(UtcNow)]]
         ELSE tracked_flights
    /\ UNCHANGED <<selected_index, status_message, history, history_file>>

\* Variant: the interval has to be exceeded.
should_update_After ==
    IF tracked_flights = <<>> \/ loading
    THEN FALSE
    ELSE IF IsSome(last_api_call)
         THEN Unwrap(last_api_call) > update_interval_secs
         ELSE TRUE

\* App::should_update
should_update ==
    IF tracked_flights = <<>> \/ loading
    THEN FALSE
    ELSE IF IsSome(last_api_call)
         THEN Unwrap(last_api_call) >= update_interval_secs
         ELSE TRUE

----------------------------------------------------------------------------
(* Provider tasks and the result channel (main.rs) *)

\* A task record holds which of its provider calls have returned.  The value a
\* call returned is drawn when the task builds its message: nothing reads it
\* before.

\* The task spawned at main.rs:117 for one submitted flight number.
SearchTask(flight_number) ==
    [kind |-> "search", flight_number |-> flight_number, icao24 |-> "",
     position_done |-> FALSE, schedule_done |-> FALSE]

\* The task spawned at main.rs:209 for one tracked flight.
UpdateTask(flight) ==
    [kind |-> "update", flight_number |-> flight.flight_number,
     icao24 |-> flight.icao24, position_done |-> FALSE, schedule_done |-> FALSE]

\* Variant: a lookup is spawned for every tracked flight.
NeedsLookup_Always(flight) == TRUE

\* The flights trigger_refresh spawns a lookup for (main.rs:208).
NeedsLookup(flight) == flight.icao24 # ""

RefreshIndices(flights) == {i \in 1..Len(flights) : NeedsLookup(flights[i])}

\* for flight in &app.tracked_flights { if !icao24.is_empty() { spawn } }
\* (the tasks of one refresh differ in their flight numbers)
RefreshTasks(flights) ==
    SetToBag({UpdateTask(flights[i]) : i \in RefreshIndices(flights)})

\* Variant: the task sends as soon as the position call has returned.
Finished_PositionOnly(t) == t.position_done

\* A task has all the results it waits for (tokio::join! of both calls, or the
\* single get_state call).
Finished(t) ==
    IF t.kind = "search" THEN t.position_done /\ t.schedule_done
    ELSE t.position_done

\* The ApiResponse the task sends (main.rs:125-129 and 211) when its calls
\* returned position_result and schedule_result.  The field schedule_result
\* (what get_flight returned) is not part of the ApiResponse; the handler does
\* not read it.
MessageOf(t, position_result, schedule_result) ==
    IF t.kind = "search"
    THEN [kind |-> "FlightSearch", flight_number |-> t.flight_number,
          position |-> position_result,
          schedule |-> Flatten(ResultOk(schedule_result)),
          schedule_result |-> schedule_result]
    ELSE [kind |-> "FlightUpdate", flight_number |-> t.flight_number,
          position |-> position_result, schedule |-> None,
          schedule_result |-> Ok(None)]

\* Variant: an unbounded channel, send never waits.
CanSend_Unbounded(ch) == TRUE

\* Sender::send can complete: the channel has a free slot.
CanSend(ch) == Len(ch) < ChannelCapacity

\* Variant: the consumer handles the newest message first.
Received_Newest(ch) == ch[Len(ch)]

\* The message the consumer loop takes from the channel, and what is left.
Received(ch) == Head(ch)
Remaining(ch) == Tail(ch)

----------------------------------------------------------------------------
(* Key events (handle_key_event).  Every handler first clears the status  *)
(* message.                                                                *)

\* submit_input (app.rs:84-93) on the buffer text
submit_input(text) == IF text = <<>> THEN None ELSE Some(ToUpper(text))

\* KeyCode::Enter in input mode with the buffer holding text: submit_input and,
\* for a non-empty input, the spawn of the dual lookup (main.rs:107-133).
KeyEnter(text) ==
    /\ ~should_quit
    /\ mode = "Input"
    /\ status_message' = None
    /\ IF IsSome(submit_input(text))
       THEN /\ spawned < MaxSpawned
            /\ loading' = TRUE
            /\ last_error' = None
            /\ tasks' = tasks (+) SetToBag({SearchTask(Unwrap(submit_input(text)))})
            /\ spawned' = spawned + 1
       ELSE UNCHANGED <<loading, last_error, tasks, spawned>>
    /\ UNCHANGED <<mode, should_quit, tracked_flights, selected_index,
                   last_api_call, history, history_file, channel>>
    /\ UNCHANGED providerVars

\* KeyCode::Esc in input mode
KeyEsc ==
    /\ ~should_quit
    /\ mode = "Input"
    /\ status_message' = None
    /\ mode' = "Viewing"
    /\ UNCHANGED <<should_quit, tracked_flights, selected_index, loading,
                   last_error, last_api_call, history, history_file,
                   tasks, channel, spawned>>
    /\ UNCHANGED providerVars

\* Ctrl-C in either mode, 'q' in viewing mode: should_quit is set, the loop
\* breaks (main.rs:84-86) and run() returns, which drops the App, the channel
\* and, with the runtime, the tasks.  The history file stays.
KeyQuit ==
    /\ ~should_quit
    /\ should_quit' = TRUE
    /\ mode' = "Input"
    /\ tracked_flights' = <<>>
    /\ selected_index' = None
    /\ loading' = FALSE
    /\ last_error' = None
    /\ status_message' = None
    /\ last_api_call' = None
    /\ history' = <<>>
    /\ tasks' = EmptyBag
    /\ channel' = <<>>
    /\ UNCHANGED <<history_file, spawned>>
    /\ UNCHANGED providerVars

\* '/' or 'a' in viewing mode
KeyInputMode ==
    /\ ~should_quit
    /\ mode = "Viewing"
    /\ status_message' = None
    /\ mode' = "Input"
    /\ UNCHANGED <<should_quit, tracked_flights, selected_index, loading,
                   last_error, last_api_call, history, history_file, tasks,
                   channel, spawned>>
    /\ UNCHANGED providerVars

\* Down or 'j' in viewing mode: app.select_next()
KeySelectNext ==
    /\ ~should_quit
    /\ mode = "Viewing"
    /\ status_message' = None
    /\ IF tracked_flights = <<>>
       THEN UNCHANGED selected_index
       ELSE selected_index' =
              Some(IF IsSome(selected_index)
                   THEN (Unwrap(selected_index) + 1) % Len(tracked_flights)
                   ELSE 0)
    /\ UNCHANGED <<mode, should_quit, tracked_flights, loading, last_error,
                   last_api_call, history, history_file, tasks, channel, spawned>>
    /\ UNCHANGED providerVars

\* Up or 'k' in viewing mode: app.select_previous()
KeySelectPrevious ==
    /\ ~should_quit
    /\ mode = "Viewing"
    /\ status_message' = None
    /\ IF tracked_flights = <<>>
       THEN UNCHANGED selected_index
       ELSE selected_index' =
              Some(IF IsSome(selected_index) /\ Unwrap(selected_index) # 0
                   THEN Unwrap(selected_index) - 1
                   ELSE Len(tracked_flights) - 1)
    /\ UNCHANGED <<mode, should_quit, tracked_flights, loading, last_error,
                   last_api_call, history, history_file, tasks, channel, spawned>>
    /\ UNCHANGED providerVars

\* Variant: the removal leaves the selection where it was.
KeyRemove_KeepsIndex ==
    /\ ~should_quit
    /\ mode = "Viewing"
    /\ status_message' = None
    /\ IF IsSome(selected_index) /\ Unwrap(selected_index) < Len(tracked_flights)
       THEN /\ tracked_flights' = RemoveAt(tracked_flights, Unwrap(selected_index))
            /\ UNCHANGED selected_index
       ELSE UNCHANGED <<tracked_flights, selected_index>>
    /\ UNCHANGED <<mode, should_quit, loading, last_error, last_api_call,
                   history, history_file, tasks, channel, spawned>>
    /\ UNCHANGED providerVars

\* 'd' in viewing mode: app.remove_selected_flight()
KeyRemove ==
    /\ ~should_quit
    /\ mode = "Viewing"
    /\ status_message' = None
    /\ IF IsSome(selected_index) /\ Unwrap(selected_index) < Len(tracked_flights)
       THEN LET index == Unwrap(selected_index)
                rest == RemoveAt(tracked_flights, index)
            IN /\ tracked_flights' = rest
               /\ selected_index' =
                    IF rest = <<>> THEN None
                    ELSE IF index >= Len(rest) THEN Some(Len(rest) - 1)
                    ELSE selected_index
       ELSE UNCHANGED <<tracked_flights, selected_index>>
    /\ UNCHANGED <<mode, should_quit, loading, last_error, last_api_call,
                   history, history_file, tasks, channel, spawned>>
    /\ UNCHANGED providerVars

\* trigger_refresh (main.rs:193-215)
trigger_refresh ==
    /\ spawned + Cardinality(RefreshIndices(tracked_flights)) <= MaxSpawned
    /\ loading' = TRUE
    /\ last_api_call' = Some(0)
    /\ last_error' = None
    /\ tasks' = tasks (+) RefreshTasks(tracked_flights)
    /\ spawned' = spawned + Cardinality(RefreshIndices(tracked_flights))

\* The guard of the manual refresh (main.rs:168).
ManualRefreshAllowed == tracked_flights # <<>> /\ ~loading

\* 'r' in viewing mode
KeyRefresh ==
    /\ ~should_quit
    /\ mode = "Viewing"
    /\ status_message' = None
    /\ IF ManualRefreshAllowed
       THEN trigger_refresh
       ELSE UNCHANGED <<loading, last_api_call, last_error, tasks, spawned>>
    /\ UNCHANGED <<mode, should_quit, tracked_flights, selected_index, history,
                   history_file, channel>>
    /\ UNCHANGED providerVars

----------------------------------------------------------------------------
(* Ticks and time *)

\* handle_tick (main.rs:177-191): the error is cleared first, then the
\* auto-refresh runs, which clears the error itself.
Tick ==
    /\ ~should_quit
    /\ IF should_update
       THEN trigger_refresh
       ELSE /\ last_error' =
                 IF /\ IsSome(last_error)
                    /\ IsSome(last_api_call)
                    /\ Unwrap(last_api_call) > ERROR_CLEAR_SECS
                 THEN None
                 ELSE last_error
            /\ UNCHANGED <<loading, last_api_call, tasks, spawned>>
    /\ UNCHANGED <<mode, should_quit, tracked_flights, selected_index,
                   status_message, history, history_file, channel>>
    /\ UNCHANGED providerVars

\* d seconds pass: the Instant the state holds grows older.
Advance(d) ==
    /\ ~should_quit
    /\ last_api_call' =
         IF IsSome(last_api_call)
         THEN Some(Min(Unwrap(last_api_call) + d, update_interval_secs))
         ELSE None
    /\ UNCHANGED <<mode, should_quit, tracked_flights, selected_index, loading,
                   last_error, status_message, history, history_file, tasks,
                   channel, spawned>>
    /\ UNCHANGED providerVars

----------------------------------------------------------------------------
(* Provider tasks *)

\* opensky.search_flight (search task) or client.get_state (update task)
\* returns.
PositionCallCompletes(t) ==
    /\ ~should_quit
    /\ ~t.position_done
    /\ tasks' = (tasks (-) SetToBag({t})) (+) SetToBag({[t EXCEPT !.position_done = TRUE]})
    /\ UNCHANGED <<appVars, channel, spawned>>
    /\ UNCHANGED providerVars

\* aviationstack.get_flight returns.
ScheduleCallCompletes(t) ==
    /\ ~should_quit
    /\ t.kind = "search"
    /\ ~t.schedule_done
    /\ tasks' = (tasks (-) SetToBag({t})) (+) SetToBag({[t EXCEPT !.schedule_done = TRUE]})
    /\ UNCHANGED <<appVars, channel, spawned>>
    /\ UNCHANGED providerVars

\* The task can send: its calls have returned and the channel has a free slot.
SendEnabled(t) == Finished(t) /\ CanSend(channel)

\* tx.send(..).await completes (main.rs:124-130, 211) and the task ends.
SendResult(t, position_result, schedule_result) ==
    /\ ~should_quit
    /\ SendEnabled(t)
    /\ channel' = Append(channel, MessageOf(t, position_result, schedule_result))
    /\ tasks' = tasks (-) SetToBag({t})
    /\ UNCHANGED <<appVars, spawned>>
    /\ UNCHANGED providerVars

\* Some task completes its send, with the results its calls returned.
Send ==
    \E t \in BagToSet(tasks) : \E rp \in PositionResults(t.flight_number) :
        \E rs \in (IF t.kind = "search" THEN ScheduleResults(t.flight_number)
                                        ELSE {Ok(None)}) :
            SendResult(t, rp, rs)

----------------------------------------------------------------------------
(* The consumer: api_rx.recv() and handle_api_response (main.rs:79-81, 217-249) *)

handle_api_response(response) ==
    /\ loading' = FALSE
    /\ IF response.kind = "FlightSearch"
       THEN IF response.position.ok
            THEN /\ add_flight(response.flight_number, response.position.val,
                               response.schedule)
                 /\ last_api_call' = Some(0)
                 /\ UNCHANGED last_error
            ELSE IF IsSome(response.schedule)
                 THEN /\ add_flight(response.flight_number, None, response.schedule)
                      /\ last_api_call' = Some(0)
                      /\ UNCHANGED last_error
                 ELSE /\ last_error' = Some(user_message(response.position.err))
                      /\ UNCHANGED <<tracked_flights, selected_index, status_message,
                                     history, history_file, last_api_call>>
       ELSE IF response.position.ok
            THEN /\ update_flight(response.flight_number, response.position.val)
                 /\ UNCHANGED <<last_error, last_api_call>>
            ELSE /\ last_error' = Some(user_message(response.position.err))
                 /\ UNCHANGED <<tracked_flights, selected_index, status_message,
                                history, history_file, last_api_call>>

Recv ==
    /\ ~should_quit
    /\ channel # <<>>
    /\ channel' = Remaining(channel)
    /\ handle_api_response(Received(channel))
    /\ UNCHANGED <<mode, should_quit, tasks, spawned>>
    /\ UNCHANGED providerVars

----------------------------------------------------------------------------
Next ==
    \/ \E text \in InputTexts : KeyEnter(text)
    \/ KeyEsc
    \/ KeyQuit
    \/ KeyInputMode
    \/ KeySelectNext
    \/ KeySelectPrevious
    \/ KeyRemove
    \/ KeyRefresh
    \/ Tick
    \/ \E d \in TimeSteps : Advance(d)
    \/ \E t \in BagToSet(tasks) : PositionCallCompletes(t)
    \/ \E t \in BagToSet(tasks) : ScheduleCallCompletes(t)
    \/ Send
    \/ Recv

Spec == Init /\ [][Next]_vars

\* What the scheduler sees of Recv: a message is ready and the loop takes it.
\* Every step of Next that takes the head of the channel while the program
\* runs is a step of Recv, and Recv can take a step exactly when Consume can.
Consume ==
    /\ ~should_quit
    /\ channel # <<>>
    /\ channel' = Remaining(channel)
    /\ should_quit' = FALSE

\* The runtime runs a task that can proceed, so a send that stays possible
\* completes; select! takes a message that stays ready in the channel.
FairSpec == Spec /\ WF_vars(Send) /\ WF_channel(Consume)

----------------------------------------------------------------------------
(* CacheSpec: the operations of one Cache<T> and its clones (cache.rs:9-57). *)
(* Every operation takes the RwLock for its whole body, so each is one step. *)

\* The engine at rest, as App::new() leaves it.
EngineIdle ==
    /\ mode = "Input"
    /\ should_quit = FALSE
    /\ tracked_flights = <<>>
    /\ selected_index = None
    /\ loading = FALSE
    /\ last_error = None
    /\ status_message = None
    /\ last_api_call = None
    /\ history = <<>>
    /\ history_file = <<>>
    /\ tasks = EmptyBag
    /\ channel = <<>>
    /\ spawned = 0

\* The map a Cache value refers to.
HandleMap(h) == cache_heap[cache_handles[h]]

CacheOp(op, h, key, result) ==
    [op |-> op, handle |-> h, key |-> key, result |-> result]

\* cache.clone()
CacheClone(h) ==
    /\ Len(cache_handles) < MaxHandles
    /\ LET c == Cache_clone(cache_heap, cache_handles[h])
       IN /\ cache_heap' = c.heap
          /\ cache_handles' = Append(cache_handles, c.ref)
    /\ cache_last' = CacheOp("clone", h, "", None)
    /\ UNCHANGED <<cache_written, engineVars, historyVars, callVars, persistVars, clientVars>>

\* cache.get(key)
CacheGet(h, key) ==
    /\ cache_last' = CacheOp("get", h, key, Cache_get(HandleMap(h), key, CacheTtl))
    /\ UNCHANGED <<cache_heap, cache_handles, cache_written, engineVars, historyVars, callVars, persistVars, clientVars>>

\* cache.set(key, value); the operation is recorded with what HashMap::insert
\* returns, the entry it replaced.
CacheSet(h, key, value) ==
    /\ cache_heap' = [cache_heap EXCEPT ![cache_handles[h]] = Cache_set(@, key, value)]
    /\ cache_written' = [cache_written EXCEPT ![key] = Some([value |-> value, age |-> 0])]
    /\ cache_last' = CacheOp("set", h, key,
                              IF key \in DOMAIN HandleMap(h)
                              THEN Some(HandleMap(h)[key])
                              ELSE None)
    /\ UNCHANGED <<cache_handles, engineVars, historyVars, callVars, persistVars, clientVars>>

\* cache.clear_expired()
CacheClearExpired(h) ==
    /\ cache_heap' = [cache_heap EXCEPT ![cache_handles[h]] = Cache_clear_expired(@, CacheTtl)]
    /\ cache_last' = CacheOp("clear_expired", h, "", None)
    /\ UNCHANGED <<cache_handles, cache_written, engineVars, historyVars, callVars, persistVars, clientVars>>

\* d time units pass between two operations.
CacheElapse(d) ==
    /\ cache_heap' = [i \in DOMAIN cache_heap |->
                         MapElapse(cache_heap[i], d, AgeCap(CacheTtl))]
    /\ cache_written' = [k \in CacheKeys |->
                            IF IsSome(cache_written[k])
                            THEN Some([Unwrap(cache_written[k]) EXCEPT
                                          !.age = Min(@ + d, AgeCap(CacheTtl))])
                            ELSE None]
    /\ cache_last' = CacheOp("elapse", 1, "", None)
    /\ UNCHANGED <<cache_handles, engineVars, historyVars, callVars, persistVars, clientVars>>

CacheInit ==
    EngineIdle /\ CacheIdle /\ PersistIdle /\ ClientIdle /\ HistoryIdle /\ CallIdle

CacheNext ==
    \/ \E h \in DOMAIN cache_handles : CacheClone(h)
    \/ \E h \in DOMAIN cache_handles : \E key \in CacheKeys : CacheGet(h, key)
    \/ \E h \in DOMAIN cache_handles : \E key \in CacheKeys :
           \E value \in CacheValues : CacheSet(h, key, value)
    \/ \E h \in DOMAIN cache_handles : CacheClearExpired(h)
    \/ \E d \in CacheTimeSteps : CacheElapse(d)

CacheSpec == CacheInit /\ [][CacheNext]_vars

----------------------------------------------------------------------------
(* PersistSpec: one PersistentCache<T> used by concurrent tasks               *)
(* (cache.rs:79-167).  A step is what a task does without another task being *)
(* able to see or change the map or the file in between: set inserts under   *)
(* the write lock and releases it; save takes the read lock and serializes   *)
(* the map, then fs::write opens the file, which truncates it, and writes    *)
(* the contents; the read guard is dropped when save returns.                *)

\* Variant: the read guard is dropped once the map is serialized, before the
\* file is written.
ReadLocked_UntilSerialized == {}

\* The tasks holding the read guard of save (lines 153-157), which lives until
\* fs::write has returned.
ReadLocked == {t \in PersistTasks : pc_tasks[t].pc \in {"locked", "truncated", "written"}}

\* set, lines 116-124: data.write() is granted when no guard is held.
PersistInsert(t, key, value) ==
    /\ pc_tasks[t].pc = "idle"
    /\ ReadLocked = {}
    /\ pc_data' = PersistentCache_insert(pc_data, key, value, pc_now)
    /\ pc_written' = [pc_written EXCEPT ![key] =
                          Some([value |-> value, inserted_at |-> pc_now, restarts |-> 0])]
    /\ pc_tasks' = [pc_tasks EXCEPT ![t] = [pc |-> "inserted", key |-> key, contents |-> EmptyMap]]
    /\ UNCHANGED <<pc_file, pc_now, pc_last, engineVars, historyVars, callVars, cacheVars, clientVars>>

\* save, lines 153-154: data.read() and serde_json::to_string_pretty
PersistSerialize(t) ==
    /\ pc_tasks[t].pc = "inserted"
    /\ pc_tasks' = [pc_tasks EXCEPT ![t].pc = "locked", ![t].contents = pc_data]
    /\ UNCHANGED <<pc_data, pc_file, pc_now, pc_written, pc_last, engineVars, historyVars, callVars, cacheVars, clientVars>>

\* save, line 155: fs::write creates the file or truncates it
PersistTruncate(t) ==
    /\ pc_tasks[t].pc = "locked"
    /\ pc_file' = FileOf("garbage", EmptyMap)
    /\ pc_tasks' = [pc_tasks EXCEPT ![t].pc = "truncated"]
    /\ UNCHANGED <<pc_data, pc_now, pc_written, pc_last, engineVars, historyVars, callVars, cacheVars, clientVars>>

\* save, line 155: fs::write writes the contents
PersistWrite(t) ==
    /\ pc_tasks[t].pc = "truncated"
    /\ pc_file' = FileOf("json", pc_tasks[t].contents)
    /\ pc_tasks' = [pc_tasks EXCEPT ![t].pc = "written"]
    /\ UNCHANGED <<pc_data, pc_now, pc_written, pc_last, engineVars, historyVars, callVars, cacheVars, clientVars>>

\* save returns, the read guard is dropped and set returns.
PersistReturn(t) ==
    /\ pc_tasks[t].pc = "written"
    /\ pc_tasks' = [pc_tasks EXCEPT ![t] = IdleTask]
    /\ pc_last' = [op |-> "set", key |-> pc_tasks[t].key, result |-> None]
    /\ UNCHANGED <<pc_data, pc_file, pc_now, pc_written, engineVars, historyVars, callVars, cacheVars, clientVars>>

\* cache.get(key)
PersistGet(key) ==
    /\ pc_last' = [op |-> "get", key |-> key,
                   result |-> PersistentCache_get(pc_data, key, pc_now, PersistTtl)]
    /\ UNCHANGED <<pc_data, pc_file, pc_now, pc_tasks, pc_written, engineVars, historyVars, callVars, cacheVars, clientVars>>

\* The wall clock moves on by d seconds.
PersistTick(d) ==
    /\ pc_now + d <= MaxClock
    /\ pc_now' = pc_now + d
    /\ pc_last' = [op |-> "tick", key |-> "", result |-> None]
    /\ UNCHANGED <<pc_data, pc_file, pc_tasks, pc_written, engineVars, historyVars, callVars, cacheVars, clientVars>>

\* The program ends with no set in progress and is started again:
\* PersistentCache::new builds the cache from the file the last run left.
\* The wall clock goes on.  (A run that ends inside a file write leaves a
\* truncated file, from which the next run starts empty.)
PersistRestart ==
    /\ \A t \in PersistTasks : pc_tasks[t].pc = "idle"
    /\ pc_data' = PersistentCache_load(pc_file)
    /\ pc_written' = [k \in CacheKeys |->
                          IF IsSome(pc_written[k])
                          THEN Some([Unwrap(pc_written[k]) EXCEPT
                                        !.restarts = Min(@ + 1, MaxRestarts)])
                          ELSE None]
    /\ pc_last' = [op |-> "new", key |-> "", result |-> None]
    /\ UNCHANGED <<pc_file, pc_now, pc_tasks, engineVars, historyVars, callVars, cacheVars, clientVars>>

PersistInit ==
    /\ EngineIdle
    /\ CacheIdle
    /\ ClientIdle
    /\ HistoryIdle
    /\ CallIdle
    /\ pc_file \in InitialFiles
    /\ pc_now = 0
    /\ pc_data = PersistentCache_load(pc_file)
    /\ pc_tasks = [t \in PersistTasks |-> IdleTask]
    /\ pc_written = [k \in CacheKeys |-> None]
    /\ pc_last = [op |-> "new", key |-> "", result |-> None]

PersistNext ==
    \/ \E t \in PersistTasks : \E key \in CacheKeys : \E value \in CacheValues :
           PersistInsert(t, key, value)
    \/ \E t \in PersistTasks : PersistSerialize(t)
    \/ \E t \in PersistTasks : PersistTruncate(t)
    \/ \E t \in PersistTasks : PersistWrite(t)
    \/ \E t \in PersistTasks : PersistReturn(t)
    \/ \E key \in CacheKeys : PersistGet(key)
    \/ \E d \in {1} : PersistTick(d)
    \/ PersistRestart

PersistSpec == PersistInit /\ [][PersistNext]_vars

----------------------------------------------------------------------------
(* ClientSpec: the lookups of the two provider clients over their caches      *)
(* (opensky.rs:30-112, aviationstack.rs:93-129).  A lookup runs without       *)
(* suspension up to its request and from the response to its return; other   *)
(* lookups run while the request is on the network.  The wall clock of the    *)
(* persistent cache moves with the time that passes.                          *)

\* self.cache.get(&key) of the client of the lookup
Cached(fn, key) ==
    IF ClientOf(fn) = "opensky"
    THEN Cache_get(HandleMap(1), key, CacheTtl)
    ELSE PersistentCache_get(pc_data, key, pc_now, PersistTtl)

\* A task calls search_flight, get_state or get_flight.
ClientStart(fn, input) ==
    LET key == LookupKey(fn, input)
        out == StartLookup(fn, IsSome(api_key), Cached(fn, key))
    IN /\ client_last' = [fn |-> fn, key |-> key, phase |-> out.phase,
                          result |-> out.result]
       /\ IF out.phase = "sent"
          THEN /\ BagCardinality(lookups) < MaxInFlight
               /\ lookups' = lookups (+) SetToBag({[fn |-> fn, key |-> key]})
          ELSE UNCHANGED lookups
       /\ UNCHANGED <<api_key, fetched, engineVars, historyVars, callVars, cacheVars, persistVars>>

\* Variant: the outcome of every request is stored.
IsStored_Always(response) == TRUE

\* The lookup reaches its cache.set only if no error made it return before:
\* `?` on send() and on json(), and the return on status 429.
IsStored(response) == response.ok

\* The response of a request arrives and the lookup returns: an error is
\* returned as it is, a result is stored in the cache of the client first
\* (search_flight lines 46-72, get_state 95-111, get_flight 112-128).
ClientRespond(request, response) ==
    /\ BagIn(request, lookups)
    /\ lookups' = lookups (-) SetToBag({request})
    /\ client_last' = [fn |-> request.fn, key |-> request.key, phase |-> "fetched",
                       result |-> response]
    /\ IF ~IsStored(response)
       THEN UNCHANGED <<cache_heap, pc_data, pc_file, fetched>>
       ELSE /\ fetched' = [fetched EXCEPT ![ClientOf(request.fn)] =
                              MapInsert(@, request.key,
                                        [value |-> response.val, age |-> 0])]
            /\ IF ClientOf(request.fn) = "opensky"
               THEN /\ cache_heap' = [cache_heap EXCEPT ![cache_handles[1]] =
                                         Cache_set(@, request.key, response.val)]
                    /\ UNCHANGED <<pc_data, pc_file>>
               ELSE /\ pc_data' = PersistentCache_insert(pc_data, request.key,
                                                         response.val, pc_now)
                    /\ pc_file' = FileOf("json", pc_data')
                    /\ UNCHANGED cache_heap
    /\ UNCHANGED <<api_key, cache_handles, cache_written, cache_last, pc_now,
                   pc_tasks, pc_written, pc_last, engineVars, historyVars, callVars>>

\* d seconds pass.
ClientElapse(d) ==
    /\ pc_now + d <= MaxClock
    /\ pc_now' = pc_now + d
    /\ cache_heap' = [i \in DOMAIN cache_heap |->
                         MapElapse(cache_heap[i], d, AgeCap(CacheTtl))]
    /\ fetched' = [c \in DOMAIN fetched |-> MapElapse(fetched[c], d, AgeCap(CacheTtl))]
    /\ client_last' = [fn |-> "", key |-> <<>>, phase |-> "elapse", result |-> Ok(None)]
    /\ UNCHANGED <<api_key, lookups, cache_handles, cache_written, cache_last,
                   pc_data, pc_file, pc_tasks, pc_written, pc_last, engineVars, historyVars, callVars>>

LookupFunctions == {"search_flight", "get_state", "get_flight"}

ClientInit ==
    /\ EngineIdle
    /\ CacheIdle
    /\ HistoryIdle
    /\ CallIdle
    /\ pc_file \in ClientFiles
    /\ pc_now = 0
    /\ pc_data = PersistentCache_load(pc_file)
    /\ pc_tasks = [t \in PersistTasks |-> IdleTask]
    /\ pc_written = [k \in CacheKeys |-> None]
    /\ pc_last = [op |-> "new", key |-> "", result |-> None]
    /\ api_key \in {None, Some("key")}
    /\ lookups = EmptyBag
    /\ fetched = [opensky |-> EmptyMap, aviationstack |-> EmptyMap]
    /\ client_last = [fn |-> "", key |-> <<>>, phase |-> "new", result |-> Ok(None)]

ClientNext ==
    \/ \E fn \in LookupFunctions : \E input \in LookupInputs(fn) : ClientStart(fn, input)
    \/ \E request \in BagToSet(lookups) : \E response \in Responses(request.fn) :
           ClientRespond(request, response)
    \/ \E d \in {1} : ClientElapse(d)

ClientSpec == ClientInit /\ [][ClientNext]_vars

----------------------------------------------------------------------------
(* A History value used on its own (history.rs) *)

\* history.add(flight_number, route)
HistoryAddStep(flight_number, route) ==
    /\ h_adds < MaxAdds
    /\ h_entries' = HistoryAdd(h_entries, flight_number, route)
    /\ h_adds' = h_adds + 1
    /\ h_last' = [op |-> "add", flight_number |-> flight_number, route |-> route,
                  before |-> h_entries,
                  base |-> IF h_last.op = "add" /\ h_last.flight_number = flight_number
                           THEN h_last.base ELSE h_entries,
                  result |-> <<>>]
    /\ UNCHANGED <<call, engineVars, cacheVars, persistVars, clientVars>>

\* history.matching(prefix)
HistoryMatching(prefix) ==
    /\ h_last' = [op |-> "matching", flight_number |-> prefix, route |-> None,
                  before |-> h_entries, base |-> h_entries,
                  result |-> matching(h_entries, prefix)]
    /\ UNCHANGED <<h_entries, h_adds, call, engineVars, cacheVars, persistVars, clientVars>>

HistoryInit ==
    /\ EngineIdle
    /\ CacheIdle
    /\ PersistIdle
    /\ ClientIdle
    /\ CallIdle
    /\ h_entries \in {History_load(file) : file \in HistoryFiles}
    /\ h_adds = 0
    /\ h_last = [op |-> "new", flight_number |-> <<>>, route |-> None,
                 before |-> <<>>, base |-> <<>>, result |-> <<>>]

HistoryNext ==
    \/ \E flight_number \in HistoryIds : \E route \in HistoryRoutes :
           HistoryAddStep(flight_number, route)
    \/ \E prefix \in HistoryPrefixes : HistoryMatching(prefix)

HistorySpec == HistoryInit /\ [][HistoryNext]_vars

----------------------------------------------------------------------------
(* The pure functions called on their own *)

\* FlightStatus::from_api_status(status)
CallFromApiStatus(status) ==
    /\ call' = [fn |-> "from_api_status", input |-> status,
                output |-> from_api_status(status)]
    /\ UNCHANGED <<engineVars, cacheVars, persistVars, clientVars, historyVars>>

\* The record add_flight builds (app.rs:187-202)
CallBuildFlight(state, schedule) ==
    /\ call' = [fn |-> "add_flight", input |-> [state |-> state, schedule |-> schedule],
                output |-> BuildFlight(<<"A">>, state, schedule)]
    /\ UNCHANGED <<engineVars, cacheVars, persistVars, clientVars, historyVars>>

\* normalize_callsign(flight_number)
CallNormalize(flight_number) ==
    /\ call' = [fn |-> "normalize_callsign", input |-> flight_number,
                output |-> normalize_callsign(flight_number)]
    /\ UNCHANGED <<engineVars, cacheVars, persistVars, clientVars, historyVars>>

CallInit ==
    EngineIdle /\ CacheIdle /\ PersistIdle /\ ClientIdle /\ HistoryIdle /\ CallIdle

CallNext ==
    \/ \E status \in StatusInputs : CallFromApiStatus(status)
    \/ \E state \in StateInputs : \E schedule \in ScheduleInputs :
           CallBuildFlight(state, schedule)
    \/ \E flight_number \in NormalizeInputs : CallNormalize(flight_number)

CallSpec == CallInit /\ [][CallNext]_vars

----------------------------------------------------------------------------
(* Steps and record projections used by the properties *)

\* The step in which the consumer loop takes the head of the channel and
\* handles it (main.rs:79-81).
RecvStep ==
    /\ ~should_quit
    /\ ~should_quit'
    /\ channel # <<>>
    /\ channel' = Tail(channel)

\* The step in which trigger_refresh runs (main.rs:193-215): both callers
\* require loading to be false, trigger_refresh sets it, and the tasks it
\* spawns are position lookups.
TriggerStep ==
    /\ ~should_quit'
    /\ ~loading
    /\ loading'
    /\ \A t \in BagToSet(tasks' (-) tasks) : t.kind = "update"

\* The tasks of a kind in a bag of tasks, and their number.
TasksOfKind(bag, kind) ==
    [t \in {x \in BagToSet(bag) : x.kind = kind} |-> bag[t]]

\* The positions of the records with a flight number.
RecordsOf(flights, flight_number) ==
    {i \in 1..Len(flights) : flights[i].flight_number = flight_number}

\* The schedule fields of a Flight (flight.rs).
ScheduleFields(f) ==
    <<f.airline, f.aircraft_type, f.registration, f.origin, f.destination,
      f.departure_scheduled, f.departure_estimated, f.departure_actual,
      f.departure_delay, f.arrival_scheduled, f.arrival_estimated,
      f.arrival_actual, f.arrival_delay>>

\* The live-position fields of a Flight (flight.rs).
PositionFields(f) ==
    <<f.callsign, f.icao24, f.latitude, f.longitude, f.altitude_ft, f.heading,
      f.vertical_rate, f.ground_speed_kts, f.on_ground, f.squawk>>

\* The message at the head of the channel carries live data that its handling
\* applies to a record: a search result for a flight not yet tracked, or a
\* refresh result for a tracked flight.
HeadAppliesPosition ==
    LET m == Head(channel) IN
    /\ m.position.ok
    /\ IsSome(m.position.val)
    /\ IF m.kind = "FlightSearch"
       THEN RecordsOf(tracked_flights, m.flight_number) = {}
       ELSE RecordsOf(tracked_flights, m.flight_number) # {}

----------------------------------------------------------------------------
(* Properties *)

\* C1: in every reachable state no two records of tracked_flights have the
\* same flight number.
C1_OneRecordPerFlight ==
    \A i, j \in 1..Len(tracked_flights) :
        tracked_flights[i].flight_number = tracked_flights[j].flight_number => i = j

\* A second search result for a tracked flight was refused.
C1_Witness ==
    \E fn \in FlightNumbers :
        /\ status_message = Some(<<"Flight {} is already tracked", fn>>)
        /\ Cardinality(RecordsOf(tracked_flights, fn)) = 1

\* C2: whenever the handling of a result applies live data to a record (when
\* the record is created, or on a refresh), the record's status afterwards is
\* OnGround if the data's on_ground flag is set and EnRoute otherwise,
\* whatever the status was before.
C2_PositionOverridesStatus ==
    [][(RecvStep /\ HeadAppliesPosition) =>
         LET m == Head(channel)
             sv == Unwrap(m.position.val)
         IN /\ RecordsOf(tracked_flights', m.flight_number) # {}
            /\ \A i \in RecordsOf(tracked_flights', m.flight_number) :
                 /\ tracked_flights'[i].on_ground = sv.on_ground
                 /\ tracked_flights'[i].status =
                      IF sv.on_ground THEN "OnGround" ELSE "EnRoute"]_vars

\* A record that carries schedule data (whose status was Landed or Delayed)
\* and is OnGround by its live data.
C2_Witness ==
    \E i \in 1..Len(tracked_flights) :
        /\ IsSome(tracked_flights[i].departure_scheduled)
        /\ tracked_flights[i].on_ground
        /\ tracked_flights[i].status = "OnGround"

\* C3: the handling of a FlightUpdate result, with data, without data or with
\* an error, leaves the schedule fields of every tracked record as they were
\* and adds or removes no record.
C3_UpdateKeepsSchedule ==
    [][(RecvStep /\ Head(channel).kind = "FlightUpdate") =>
         /\ Len(tracked_flights') = Len(tracked_flights)
         /\ \A i \in 1..Len(tracked_flights) :
              /\ tracked_flights'[i].flight_number = tracked_flights[i].flight_number
              /\ ScheduleFields(tracked_flights'[i]) = ScheduleFields(tracked_flights[i])]_vars

\* A refresh result with new live data is about to be applied to a record
\* that carries schedule data.
C3_Witness ==
    /\ channel # <<>>
    /\ Head(channel).kind = "FlightUpdate"
    /\ HeadAppliesPosition
    /\ \E i \in RecordsOf(tracked_flights, Head(channel).flight_number) :
         /\ IsSome(tracked_flights[i].origin)
         /\ IsSome(tracked_flights[i].arrival_delay)
         /\ tracked_flights[i].on_ground # Unwrap(Head(channel).position.val).on_ground

\* C4: when the result of a dual lookup whose schedule call failed and whose
\* position call returned data is handled for a flight not yet tracked, one
\* record is added, and it carries the flight number, the live-position
\* fields of the data and the status OnGround or EnRoute.
C4_PositionWithoutSchedule ==
    [][(/\ RecvStep
        /\ Head(channel).kind = "FlightSearch"
        /\ ~Head(channel).schedule_result.ok
        /\ HeadAppliesPosition) =>
         LET m == Head(channel)
             sv == Unwrap(m.position.val)
             n == Len(tracked_flights)
         IN /\ Len(tracked_flights') = n + 1
            /\ SubSeq(tracked_flights', 1, n) = tracked_flights
            /\ tracked_flights'[n + 1].flight_number = m.flight_number
            /\ tracked_flights'[n + 1].icao24 = sv.icao24
            /\ tracked_flights'[n + 1].callsign = UnwrapOr(sv.callsign, "")
            /\ tracked_flights'[n + 1].latitude = sv.latitude
            /\ tracked_flights'[n + 1].longitude = sv.longitude
            /\ tracked_flights'[n + 1].heading = sv.true_track
            /\ tracked_flights'[n + 1].squawk = sv.squawk
            /\ tracked_flights'[n + 1].on_ground = sv.on_ground
            /\ IsSome(tracked_flights'[n + 1].altitude_ft) = IsSome(sv.baro_altitude)
            /\ IsSome(tracked_flights'[n + 1].ground_speed_kts) = IsSome(sv.velocity)
            /\ IsSome(tracked_flights'[n + 1].vertical_rate) = IsSome(sv.vertical_rate)
            /\ tracked_flights'[n + 1].status =
                 IF sv.on_ground THEN "OnGround" ELSE "EnRoute"]_vars

\* The result of a dual lookup with a failed schedule call and live data is
\* at the head of the channel, for a flight that is not tracked.
C4_Witness ==
    /\ channel # <<>>
    /\ Head(channel).kind = "FlightSearch"
    /\ ~Head(channel).schedule_result.ok
    /\ HeadAppliesPosition

\* C5: when the result of a dual lookup whose position call failed and whose
\* schedule call returned a record is handled for a flight not yet tracked,
\* one record is added, and it carries the flight number and the schedule
\* data: status, airline, aircraft, departure and arrival.
C5_ScheduleWithoutPosition ==
    [][(/\ RecvStep
        /\ Head(channel).kind = "FlightSearch"
        /\ ~Head(channel).position.ok
        /\ Head(channel).schedule_result.ok
        /\ IsSome(Head(channel).schedule_result.val)
        /\ RecordsOf(tracked_flights, Head(channel).flight_number) = {}) =>
         LET m == Head(channel)
             fd == Unwrap(m.schedule_result.val)
             n == Len(tracked_flights)
             f == tracked_flights'[n + 1]
         IN /\ Len(tracked_flights') = n + 1
            /\ SubSeq(tracked_flights', 1, n) = tracked_flights
            /\ f.flight_number = m.flight_number
            /\ f.icao24 = ""
            /\ IsSome(fd.flight_status) =>
                 f.status = from_api_status(Unwrap(fd.flight_status))
            /\ IsSome(fd.airline) => f.airline = Unwrap(fd.airline).name
            /\ IsSome(fd.aircraft) =>
                 f.registration = Unwrap(fd.aircraft).registration
            /\ IsSome(fd.departure) =>
                 /\ IsSome(f.origin)
                 /\ Unwrap(f.origin).iata = Unwrap(fd.departure).iata
                 /\ f.departure_scheduled = Unwrap(fd.departure).scheduled
                 /\ f.departure_estimated = Unwrap(fd.departure).estimated
                 /\ f.departure_actual = Unwrap(fd.departure).actual
                 /\ f.departure_delay = Unwrap(fd.departure).delay
            /\ IsSome(fd.arrival) =>
                 /\ IsSome(f.destination)
                 /\ Unwrap(f.destination).icao = Unwrap(fd.arrival).icao
                 /\ f.arrival_scheduled = Unwrap(fd.arrival).scheduled
                 /\ f.arrival_estimated = Unwrap(fd.arrival).estimated
                 /\ f.arrival_actual = Unwrap(fd.arrival).actual
                 /\ f.arrival_delay = Unwrap(fd.arrival).delay]_vars

\* The result of a dual lookup with a failed position call and a schedule
\* record is at the head of the channel, for a flight that is not tracked.
C5_Witness ==
    /\ channel # <<>>
    /\ Head(channel).kind = "FlightSearch"
    /\ ~Head(channel).position.ok
    /\ IsSome(Head(channel).schedule_result.val)
    /\ RecordsOf(tracked_flights, Head(channel).flight_number) = {}

\* C6: a search task's two provider calls proceed independently (each call
\* that has not returned can return, whether or not the other has); every
\* submit spawns one search task; a FlightSearch message is put on the
\* channel only by a search task whose two calls have both returned, which
\* ends with that send; and a search task ends only by sending its one message.
C6_OneEventAfterBothCalls ==
    /\ [](\A t \in BagToSet(tasks) :
            t.kind = "search" =>
              /\ ~t.position_done => ENABLED PositionCallCompletes(t)
              /\ ~t.schedule_done => ENABLED ScheduleCallCompletes(t))
    /\ [][/\ BagCardinality(TasksOfKind(tasks', "search"))
               > BagCardinality(TasksOfKind(tasks, "search")) =>
               /\ channel' = channel
               /\ \E fn \in FlightNumbers :
                    tasks' = tasks (+) SetToBag({[kind |-> "search", flight_number |-> fn,
                                                 icao24 |-> "", position_done |-> FALSE,
                                                 schedule_done |-> FALSE]})
          /\ (Len(channel') > Len(channel) /\ channel'[Len(channel')].kind = "FlightSearch") =>
               /\ Len(channel') = Len(channel) + 1
               /\ SubSeq(channel', 1, Len(channel)) = channel
               /\ \E t \in BagToSet(tasks) :
                    /\ t.kind = "search"
                    /\ t.position_done
                    /\ t.schedule_done
                    /\ t.flight_number = channel'[Len(channel')].flight_number
                    /\ tasks' = tasks (-) SetToBag({t})
          /\ (/\ ~should_quit'
              /\ BagCardinality(TasksOfKind(tasks', "search"))
                   < BagCardinality(TasksOfKind(tasks, "search"))) =>
               /\ Len(channel') = Len(channel) + 1
               /\ channel'[Len(channel')].kind = "FlightSearch"]_vars

\* One search has sent its message while the schedule call of another has
\* returned before its position call.
C6_Witness ==
    /\ \E i \in 1..Len(channel) : channel[i].kind = "FlightSearch"
    /\ \E t \in BagToSet(tasks) :
         t.kind = "search" /\ t.schedule_done /\ ~t.position_done

\* C7: whenever trigger_refresh runs, no position lookup of an earlier refresh
\* is running and no result of one is waiting in the channel.
C7_NoRefreshOutstanding ==
    [][TriggerStep =>
         /\ \A t \in BagToSet(tasks) : t.kind # "update"
         /\ \A i \in 1..Len(channel) : channel[i].kind # "FlightUpdate"]_vars

\* C8: trigger_refresh spawns one position lookup for every tracked flight
\* whose icao24 is not empty and none for the others, so that no lookup of a
\* refresh is ever for an empty icao24.
C8_RefreshSpawnsPerTransponder ==
    /\ [][TriggerStep =>
            tasks' = tasks (+) SetToBag(
                {[kind |-> "update",
                  flight_number |-> tracked_flights[i].flight_number,
                  icao24 |-> tracked_flights[i].icao24,
                  position_done |-> FALSE, schedule_done |-> FALSE] :
                     i \in {j \in 1..Len(tracked_flights) :
                              tracked_flights[j].icao24 # ""}})]_vars
    /\ [](\A t \in BagToSet(tasks) : t.kind = "update" => t.icao24 # "")

\* A refresh has just run with two flights tracked, one of them without an
\* icao24: one lookup is running.
C8_Witness ==
    /\ loading
    /\ channel = <<>>
    /\ Len(tracked_flights) = 2
    /\ \E i \in 1..2 : tracked_flights[i].icao24 = ""
    /\ BagCardinality(tasks) = 1
    /\ \A t \in BagToSet(tasks) : t.kind = "update" /\ ~t.position_done

\* C8 as stated: the spawn rule, and its consequence that the handling of a
\* refresh result leaves a record without an icao24 without position data.
C8_NoPositionWithoutTransponder ==
    /\ C8_RefreshSpawnsPerTransponder
    /\ [][(RecvStep /\ Head(channel).kind = "FlightUpdate") =>
            \A i \in 1..Len(tracked_flights) :
                tracked_flights[i].icao24 = "" =>
                  /\ i <= Len(tracked_flights')
                  /\ PositionFields(tracked_flights'[i]) =
                       PositionFields(tracked_flights[i])]_vars

\* C9: the channel changes only by a message added at its end or by its head
\* taken, and the step that takes the head changes the application state as
\* the handling of that one message does; so of two queued results the one
\* that arrived later is applied last.
C9_AppliedInChannelOrder ==
    [][(~should_quit' /\ channel' # channel) =>
         \/ /\ Len(channel') = Len(channel) + 1
            /\ SubSeq(channel', 1, Len(channel)) = channel
            /\ UNCHANGED appVars
         \/ /\ channel # <<>>
            /\ channel' = Tail(channel)
            /\ handle_api_response(Head(channel))]_vars

\* Two different results for the same flight are queued.
C9_Witness ==
    /\ Len(channel) >= 2
    /\ channel[1].flight_number = channel[2].flight_number
    /\ channel[1].position # channel[2].position
    /\ RecordsOf(tracked_flights, channel[1].flight_number) # {}

\* A result is waiting: a task has all its results, or the channel holds a
\* message.
Pending ==
    \/ channel # <<>>
    \/ \E t \in BagToSet(tasks) :
         t.position_done /\ (t.kind = "search" => t.schedule_done)

\* C10: the channel never holds more messages than its capacity; a task ends
\* only by putting its message on the channel and a message leaves the channel
\* only by being handled; and while the program runs every waiting result is
\* eventually handled: from a state with a waiting result a state with none
\* is reached.
C10_BoundedAndDelivered ==
    /\ [](Len(channel) <= ChannelCapacity)
    /\ [][~should_quit' =>
            /\ BagCardinality(tasks') < BagCardinality(tasks) =>
                 /\ BagCardinality(tasks') = BagCardinality(tasks) - 1
                 /\ Len(channel') = Len(channel) + 1
                 /\ SubSeq(channel', 1, Len(channel)) = channel
                 /\ \E t \in BagToSet(tasks) :
                      /\ tasks' = tasks (-) SetToBag({t})
                      /\ channel'[Len(channel')].flight_number = t.flight_number
            /\ Len(channel') < Len(channel) =>
                 /\ channel' = Tail(channel)
                 /\ tasks' = tasks
                 /\ ~loading']_vars
    /\ (Pending ~> (should_quit \/ ~Pending))

\* The channel is full and a task that has its results waits to send.
C10_Witness ==
    /\ ~should_quit
    /\ Len(channel) = ChannelCapacity
    /\ \E t \in BagToSet(tasks) :
         t.position_done /\ (t.kind = "search" => t.schedule_done)

----------------------------------------------------------------------------
(* Properties of the in-memory cache, checked under CacheSpec *)

\* The latest set of the key through any Cache value is younger than the ttl.
WrittenLive(key) ==
    IsSome(cache_written[key]) /\ Unwrap(cache_written[key]).age < CacheTtl

\* C11: a get(k) made after set(k, v) returns v while the age of the entry is
\* strictly below the ttl, and nothing once the age has reached or passed the
\* ttl; a get of a key that was never set returns nothing.
C11_GetWithinTtl ==
    cache_last.op = "get" =>
        cache_last.result =
            IF WrittenLive(cache_last.key)
            THEN Some(Unwrap(cache_written[cache_last.key]).value)
            ELSE None

\* A get made when the age of the entry is exactly the ttl returned nothing.
C11_Witness ==
    /\ cache_last.op = "get"
    /\ IsSome(cache_written[cache_last.key])
    /\ Unwrap(cache_written[cache_last.key]).age = CacheTtl
    /\ cache_last.result = None

\* C12 (as the code has it): clear_expired removes exactly the entries whose
\* age has reached or passed the ttl, the ones get no longer serves, and
\* leaves every other entry (key, value and insertion time) and every other
\* map untouched.
C12_ClearRemovesExpired ==
    [][cache_last'.op = "clear_expired" =>
          LET ref    == cache_handles[cache_last'.handle]
              before == cache_heap[ref]
              after  == cache_heap'[ref]
          IN /\ DOMAIN after = {k \in DOMAIN before : ~(before[k].age >= CacheTtl)}
             /\ \A k \in DOMAIN after : after[k] = before[k]
             /\ \A i \in DOMAIN cache_heap : i # ref => cache_heap'[i] = cache_heap[i]
      ]_vars

\* clear_expired has removed an entry whose age was exactly the ttl and kept
\* a younger one.
C12_Witness ==
    /\ cache_last.op = "clear_expired"
    /\ \E k \in CacheKeys :
          /\ IsSome(cache_written[k])
          /\ Unwrap(cache_written[k]).age = CacheTtl
          /\ k \notin DOMAIN HandleMap(cache_last.handle)
    /\ \E k \in DOMAIN HandleMap(cache_last.handle) :
          HandleMap(cache_last.handle)[k].age < CacheTtl

\* C12 as stated: clear_expired removes exactly the entries whose age exceeds
\* the ttl and leaves every other entry untouched.
C12_ClearRemovesOlderThanTtl ==
    [][cache_last'.op = "clear_expired" =>
          LET ref    == cache_handles[cache_last'.handle]
              before == cache_heap[ref]
              after  == cache_heap'[ref]
          IN /\ DOMAIN after = {k \in DOMAIN before : ~(before[k].age > CacheTtl)}
             /\ \A k \in DOMAIN after : after[k] = before[k]
             /\ \A i \in DOMAIN cache_heap : i # ref => cache_heap'[i] = cache_heap[i]
      ]_vars

\* C13: set(k, v2) on a key that already has an entry, live or expired,
\* replaces the value and resets the insertion time, so that get(k) returns
\* v2 and leaves every other entry as it was; and for the next full ttl every
\* get(k) returns the value set last, never an older one.
C13_SetReplacesEntry ==
    [][LET ref    == cache_handles[cache_last'.handle]
           key    == cache_last'.key
           before == cache_heap[ref]
           after  == cache_heap'[ref]
       IN /\ (cache_last'.op = "set" /\ key \in DOMAIN before) =>
                 /\ after[key].age = 0
                 /\ after[key].value \in CacheValues
                 /\ Cache_get(after, key, CacheTtl) = Some(after[key].value)
                 /\ cache_written'[key] = Some(after[key])
                 /\ DOMAIN after = DOMAIN before
                 /\ \A k \in DOMAIN before \ {key} : after[k] = before[k]
          /\ (cache_last'.op = "get" /\ WrittenLive(key)) =>
                 cache_last'.result = Some(Unwrap(cache_written[key]).value)
      ]_vars

\* A set has replaced an expired entry that held another value, next to an
\* entry of another key.
C13_Witness ==
    /\ cache_last.op = "set"
    /\ IsSome(cache_last.result)
    /\ Unwrap(cache_last.result).age >= CacheTtl
    /\ Unwrap(cache_last.result).value # HandleMap(cache_last.handle)[cache_last.key].value
    /\ DOMAIN HandleMap(cache_last.handle) = CacheKeys

\* C14: all clones of a cache refer to one shared map: under every
\* interleaving of their operations, a get through any Cache value returns
\* the latest set made through any of them while it is younger than the ttl,
\* and nothing otherwise.
C14_ClonesShareOneMap ==
    \A h \in DOMAIN cache_handles :
        /\ cache_handles[h] = cache_handles[1]
        /\ \A k \in CacheKeys :
              Cache_get(HandleMap(h), k, CacheTtl) =
                  IF WrittenLive(k) THEN Some(Unwrap(cache_written[k]).value) ELSE None

\* A set was made through the clone, replacing an entry, and a get through
\* the original returns the new value.
C14_Witness ==
    /\ Len(cache_handles) = 2
    /\ cache_last.op = "set"
    /\ cache_last.handle = 2
    /\ IsSome(cache_last.result)
    /\ Unwrap(cache_last.result).value # Unwrap(cache_written[cache_last.key]).value
    /\ Cache_get(HandleMap(1), cache_last.key, CacheTtl) =
           Some(Unwrap(cache_written[cache_last.key]).value)

----------------------------------------------------------------------------
(* Properties of the persistent cache, checked under PersistSpec *)

\* No set is in progress.
NoSetInProgress == \A t \in PersistTasks : pc_tasks[t].pc = "idle"

\* The step in which the set of task t returns.
SetReturns(t) == pc_tasks[t].pc = "written" /\ pc_tasks'[t].pc = "idle"

\* C19 (as the code has it): once a set was made, the file is a snapshot of
\* the in-memory map whenever no set is in progress; and when a set(k, v)
\* returns, the file is a snapshot of the map, k included, unless the file
\* write of another task's set is under way, which has truncated the file.
C19_WriteThroughWhenQuiet ==
    [][/\ (NoSetInProgress' /\ \E k \in CacheKeys : IsSome(pc_written'[k])) =>
              pc_file' = FileOf("json", pc_data')
       /\ \A t \in PersistTasks :
              SetReturns(t) =>
                  \/ /\ pc_file' = FileOf("json", pc_data')
                     /\ pc_tasks[t].key \in DOMAIN pc_file'.map
                  \/ /\ pc_file' = FileOf("garbage", EmptyMap)
                     /\ \E u \in PersistTasks \ {t} : pc_tasks[u].pc = "truncated"
      ]_vars

\* The sets of two tasks ran side by side: one has returned, the other has
\* written the file and not returned yet, and the file holds both keys.
C19_Witness ==
    /\ pc_last.op = "set"
    /\ \E u \in PersistTasks : pc_tasks[u].pc = "written" /\ pc_tasks[u].key # pc_last.key
    /\ pc_file = FileOf("json", pc_data)
    /\ DOMAIN pc_data = CacheKeys

\* C19 as stated: when a set(k, v) returns the file snapshot contains k, and
\* whenever no set is in progress the file snapshot equals the in-memory map.
C19_WriteThroughOnReturn ==
    [][/\ (NoSetInProgress' /\ \E k \in CacheKeys : IsSome(pc_written'[k])) =>
              pc_file' = FileOf("json", pc_data')
       /\ \A t \in PersistTasks :
              SetReturns(t) =>
                  /\ pc_file'.kind = "json"
                  /\ pc_tasks[t].key \in DOMAIN pc_file'.map
      ]_vars

\* C20: constructing a persistent cache never fails: over a file that is
\* absent, unreadable or does not deserialize the cache starts empty, and
\* until the first set the map stays empty and every get returns nothing.
C20_StartsEmptyWithoutSnapshot ==
    (/\ pc_file.kind \in {"absent", "unreadable", "garbage"}
     /\ \A k \in CacheKeys : pc_written[k] = None) =>
        /\ pc_data = EmptyMap
        /\ \A k \in CacheKeys : PersistentCache_get(pc_data, k, pc_now, PersistTtl) = None
        /\ pc_last.op = "get" => pc_last.result = None

\* The cache was constructed over a file that does not deserialize, and a
\* get of the key the damaged file mentions returned nothing.
C20_Witness ==
    /\ pc_file.kind = "garbage"
    /\ \A k \in CacheKeys : pc_written[k] = None
    /\ pc_last.op = "get"
    /\ pc_last.key \in DOMAIN pc_file.map
    /\ pc_last.result = None

----------------------------------------------------------------------------
(* Properties of the provider clients, checked under ClientSpec *)

\* The ttl of the cache of a client.
TtlOf(client) == IF client = "opensky" THEN CacheTtl ELSE PersistTtl

\* C15: once a lookup for a normalized key has fetched a result without
\* error, "no data" included, every lookup for the same key that starts while
\* the entry written last for the key is within the ttl returns that result
\* and sends no request.
C15_CachedResultServed ==
    [][client_last'.phase \in {"hit", "sent"} =>
          LET client == ClientOf(client_last'.fn)
              key    == client_last'.key
          IN (/\ key \in DOMAIN fetched[client]
              /\ fetched[client][key].age < TtlOf(client)) =>
                 /\ client_last'.phase = "hit"
                 /\ client_last'.result = Ok(fetched[client][key].value)
                 /\ lookups' = lookups
      ]_vars

\* A lookup was answered from the cache with the "no data" fetched for its
\* key some time before.
C15_Witness ==
    /\ client_last.phase = "hit"
    /\ client_last.result = Ok(None)
    /\ client_last.key \in DOMAIN fetched[ClientOf(client_last.fn)]
    /\ fetched[ClientOf(client_last.fn)][client_last.key].value = None
    /\ fetched[ClientOf(client_last.fn)][client_last.key].age > 0
    /\ lookups = EmptyBag

\* C16: without schedule-provider credentials every schedule lookup returns
\* "no data" as a success, sends no request and leaves the schedule cache and
\* its file unchanged.
C16_NoCredentialsNoData ==
    [][api_key = None =>
          /\ client_last'.fn = "get_flight" =>
                 /\ client_last'.phase = "nokey"
                 /\ client_last'.result = Ok(None)
                 /\ lookups' = lookups
          /\ \A request \in BagToSet(lookups') : request.fn # "get_flight"
          /\ pc_data' = pc_data
          /\ pc_file' = pc_file
      ]_vars

\* A schedule lookup without credentials returned "no data" although the
\* cache loaded from the file holds a record for its key that is within the
\* ttl.
C16_Witness ==
    /\ api_key = None
    /\ client_last.fn = "get_flight"
    /\ client_last.phase = "nokey"
    /\ client_last.result = Ok(None)
    /\ PersistentCache_get(pc_data, client_last.key, pc_now, PersistTtl) = Some(Some("schedule1"))

----------------------------------------------------------------------------
(* Provider errors and the error message, checked under Spec *)

\* C17: every provider call that ends in an error, from either provider, in
\* an initial lookup or a refresh, is carried in the result event placed on
\* the channel: the errors an ApiResponse holds (its position field is a
\* Result, its schedule field an Option) include the error of each call that
\* failed.
C17_EveryErrorCarried ==
    \A i \in 1..Len(channel) :
        LET m       == channel[i]
            failed  == (IF m.position.ok THEN {} ELSE {<<"position", m.position.err>>})
                       \cup (IF m.schedule_result.ok THEN {}
                             ELSE {<<"schedule", m.schedule_result.err>>})
            carried == IF m.position.ok THEN {} ELSE {<<"position", m.position.err>>}
        IN failed \subseteq carried

\* The tick timer fires for as long as the loop runs and time passes: a tick
\* that would change the state is handled, and the Instant the state holds
\* grows older.
TickSpec == Spec /\ WF_vars(Tick) /\ WF_vars(\E d \in TimeSteps : Advance(d))

\* C18, for an error shown when no provider call has been recorded: the error
\* message is eventually cleared by the passage of time and ticks alone.
C18_ErrorClearedByTicks ==
    (IsSome(last_error) /\ last_api_call = None) ~> (last_error = None)

\* C21: a persistent-cache entry survives a restart: after set(k, v), the
\* save, and the construction of a new cache from the file, get(k) returns v
\* exactly when the seconds of the wall clock since the insertion are fewer
\* than the ttl; the restart does not reset the age of the entry.
C21_EntrySurvivesRestart ==
    (/\ pc_last.op = "get"
     /\ IsSome(pc_written[pc_last.key])
     /\ Unwrap(pc_written[pc_last.key]).restarts > 0) =>
        pc_last.result =
            IF pc_now - Unwrap(pc_written[pc_last.key]).inserted_at < PersistTtl
            THEN Some(Unwrap(pc_written[pc_last.key]).value)
            ELSE None

\* After a restart, a get of an entry set in the run before returned nothing
\* because the seconds since its insertion had reached the ttl.
C21_Witness ==
    /\ pc_last.op = "get"
    /\ IsSome(pc_written[pc_last.key])
    /\ Unwrap(pc_written[pc_last.key]).restarts > 0
    /\ pc_now - Unwrap(pc_written[pc_last.key]).inserted_at = PersistTtl
    /\ pc_last.key \in DOMAIN pc_data
    /\ pc_last.result = None


\* The entries of a history that are not of the flight number, in their order.
Others(entries, flight_number) ==
    SelectSeq(entries, LAMBDA e : e.flight_number # flight_number)

\* The entry the latest add was called with.
AddedEntry == [flight_number |-> h_last.flight_number, route |-> h_last.route]

\* C22: History add is move-to-front and idempotent: after add(id, route) the
\* history has exactly one entry for id, it is the first entry, it carries the
\* route of this call, and the other entries keep their relative order; adding
\* the same identifier several times in a row yields the history that adding
\* it once, with the last route, yields.
C22_AddMovesToFront ==
    h_last.op = "add" =>
        /\ Cardinality({i \in 1..Len(h_entries) :
                           h_entries[i].flight_number = h_last.flight_number}) = 1
        /\ h_entries[1] = AddedEntry
        /\ Tail(h_entries) =
               SubSeq(Others(h_last.before, h_last.flight_number), 1, Len(h_entries) - 1)
        /\ h_entries = HistoryAdd(h_last.base, h_last.flight_number, h_last.route)

\* The flight number was added twice in a row, the second time with another
\* route, to a history that held it behind other entries.
C22_Witness ==
    /\ h_last.op = "add"
    /\ h_last.base # h_last.before
    /\ h_last.before[1].route # h_last.route
    /\ \E i \in 2..Len(h_last.base) : h_last.base[i].flight_number = h_last.flight_number
    /\ Len(h_entries) = MAX_HISTORY_SIZE

\* C23: the history never holds more than 20 entries after an add, whatever
\* adds came before, and when an add exceeds the bound the entries dropped are
\* the least recently added ones, the last in recency order.
C23_BoundedDropsOldest ==
    h_last.op = "add" =>
        LET full == <<AddedEntry>> \o Others(h_last.before, h_last.flight_number)
        IN /\ Len(h_entries) <= MAX_HISTORY_SIZE
           /\ Len(h_entries) = Min(Len(full), MAX_HISTORY_SIZE)
           /\ h_entries = SubSeq(full, 1, Len(h_entries))

\* An add of a new flight number to a history of 20 entries dropped the last.
C23_Witness ==
    /\ h_last.op = "add"
    /\ Len(h_last.before) = MAX_HISTORY_SIZE
    /\ Len(Others(h_last.before, h_last.flight_number)) = MAX_HISTORY_SIZE
    /\ Len(h_entries) = MAX_HISTORY_SIZE
    /\ \A i \in 1..Len(h_entries) :
           h_entries[i].flight_number # h_last.before[MAX_HISTORY_SIZE].flight_number

\* C24: matching(prefix) returns exactly the entries whose identifier starts
\* with the prefix when both are compared without regard to letter case, for
\* every stored identifier and every prefix, in recency order.
C24_MatchingIgnoresCase ==
    h_last.op = "matching" =>
        h_last.result =
            SelectSeq(h_entries,
                      LAMBDA e : StartsWith(ToLower(e.flight_number),
                                            ToLower(h_last.flight_number)))


\* The status a status word stands for.
StatusOfWord(word) ==
    CASE word = <<"s","c","h","e","d","u","l","e","d">> -> "Scheduled"
      [] word \in {<<"a","c","t","i","v","e">>, <<"e","n","-","r","o","u","t","e">>} -> "EnRoute"
      [] word = <<"l","a","n","d","e","d">> -> "Landed"
      [] word = <<"d","e","l","a","y","e","d">> -> "Delayed"
      [] word = <<"c","a","n","c","e","l","l","e","d">> -> "Cancelled"

\* C25: the status-string mapping is total and case-insensitive: scheduled
\* gives Scheduled, active and en-route give EnRoute, landed gives Landed,
\* delayed gives Delayed, cancelled gives Cancelled, in any letter case, and
\* every other string, the empty one included, gives Unknown; the mapping
\* never yields OnGround or NotFound.
C25_StatusMapping ==
    call.fn = "from_api_status" =>
        /\ \A word \in StatusWords :
               ToUpper(call.input) = ToUpper(word) => call.output = StatusOfWord(word)
        /\ (\A word \in StatusWords : ToUpper(call.input) # ToUpper(word)) =>
               call.output = "Unknown"
        /\ call.output \in FlightStatuses \ {"OnGround", "NotFound"}

\* The mapping was applied to "eN-RoUtE".
C25_Witness ==
    /\ call.fn = "from_api_status"
    /\ call.input = <<"e","N","-","R","o","U","t","E">>
    /\ call.output = "EnRoute"


\* C26: a newly created record starts as NotFound and the status is
\* overwritten whenever schedule or position data is available: right after
\* creation the status is NotFound if and only if neither a schedule record
\* nor a position record was supplied.
C26_NotFoundIffNoData ==
    call.fn = "add_flight" =>
        (call.output.status = "NotFound"
            <=> (call.input.state = None /\ call.input.schedule = None))

\* The delay of an optional AirportInfo of a schedule record.
DelayOf(info) == IF IsSome(info) THEN Unwrap(info).delay ELSE None

\* The handling of the head of the channel applies live data to the record of
\* the flight number.
PositionAppliedTo(flight_number) ==
    /\ RecvStep
    /\ HeadAppliesPosition
    /\ Head(channel).flight_number = flight_number

\* C27: a record created from schedule data only has the status mapped from
\* the status string of the schedule and the departure and arrival delay of
\* the schedule, and status and delays stay so until a position result is
\* applied to the record.
C27_ScheduleOnlyRecord ==
    [][/\ (/\ RecvStep
           /\ Head(channel).kind = "FlightSearch"
           /\ RecordsOf(tracked_flights, Head(channel).flight_number) = {}
           /\ IsSome(Head(channel).schedule)
           /\ ~HeadAppliesPosition) =>
              LET sched == Unwrap(Head(channel).schedule)
                  f == tracked_flights'[Len(tracked_flights')]
              IN /\ Len(tracked_flights') = Len(tracked_flights) + 1
                 /\ f.flight_number = Head(channel).flight_number
                 /\ f.status = from_api_status(Unwrap(sched.flight_status))
                 /\ f.departure_delay = DelayOf(sched.departure)
                 /\ f.arrival_delay = DelayOf(sched.arrival)
       /\ \A fn \in FlightNumbers :
              (/\ RecordsOf(tracked_flights, fn) # {}
               /\ RecordsOf(tracked_flights', fn) # {}
               /\ ~PositionAppliedTo(fn)) =>
                  \A i \in RecordsOf(tracked_flights, fn) :
                      \A j \in RecordsOf(tracked_flights', fn) :
                          /\ tracked_flights'[j].status = tracked_flights[i].status
                          /\ tracked_flights'[j].departure_delay =
                                 tracked_flights[i].departure_delay
                          /\ tracked_flights'[j].arrival_delay =
                                 tracked_flights[i].arrival_delay
      ]_vars

\* A record built from the schedule of flight A alone, still as it was built
\* when a later flight has been added behind it.
C27_Witness ==
    \E i \in 1..(Len(tracked_flights) - 1) :
        /\ tracked_flights[i].icao24 = ""
        /\ tracked_flights[i].status = "Landed"
        /\ tracked_flights[i].departure_delay = Some(45)
        /\ tracked_flights[i].arrival_delay = DelayOf(FD_Landed.arrival)


\* C28: for every designator of the table, the two-letter ones like UA and
\* the letter/digit ones like B6 and F9, and every number n, normalizing the
\* designator followed by n yields the three-letter code followed by n.
C28_EveryDesignatorTranslated ==
    call.fn = "normalize_callsign" =>
        \A p \in IcaoCodes : \A n \in FlightDigits :
            call.input = Chars(p[1]) \o n => call.output = Chars(p[2]) \o n

\* The trimmed, upper-cased form of a flight number.
Canonical(s) == ToUpper(Trim(s))

\* C29: normalization depends only on the trimmed, upper-cased input: inputs
\* that differ only in letter case or in leading and trailing white space are
\* given the same key, and an input whose carrier is not in the table is
\* given its trimmed upper-case form.
C29_CaseAndBlanksIgnored ==
    call.fn = "normalize_callsign" =>
        /\ \A other \in NormalizeInputs :
               Canonical(other) = Canonical(call.input) =>
                   normalize_callsign(other) = call.output
        /\ (\A p \in IcaoCodes : ~StartsWith(Canonical(call.input), Chars(p[1]))) =>
               call.output = Canonical(call.input)

\* " uA12 " was given the key UAL12.
C29_Witness ==
    /\ call.fn = "normalize_callsign"
    /\ call.input = <<" ", " ", "u", "A", "1", "2", " ">>
    /\ call.output = <<"U", "A", "L", "1", "2">>


\* The display code of an AirportInfo of a schedule record: the IATA code,
\* else the ICAO code, else the placeholder.
CodeOf(info) ==
    IF IsSome(info.iata) THEN Unwrap(info.iata)
    ELSE IF IsSome(info.icao) THEN Unwrap(info.icao)
    ELSE "???"

\* The route of a flight whose schedule lookup gave this result: absent
\* unless the schedule names both airports.
ExpectedRoute(schedule) ==
    IF IsSome(schedule) /\ IsSome(Unwrap(schedule).departure)
                        /\ IsSome(Unwrap(schedule).arrival)
    THEN Some(<<CodeOf(Unwrap(Unwrap(schedule).departure)),
                CodeOf(Unwrap(Unwrap(schedule).arrival))>>)
    ELSE None

\* The handling of the head of the channel creates a record: a search result
\* with something to show, for a flight that is not tracked.
CreationStep ==
    /\ RecvStep
    /\ Head(channel).kind = "FlightSearch"
    /\ RecordsOf(tracked_flights, Head(channel).flight_number) = {}
    /\ Head(channel).position.ok \/ IsSome(Head(channel).schedule)

\* C30: the route stored in the history for an identifier is derived once,
\* when its record is created: origin code and destination code, each the
\* IATA code, else the ICAO code, else a placeholder, and no route unless
\* both airports are known; no refresh result, and no other step of the
\* running program, changes the history or that route.
C30_RouteDerivedAtCreation ==
    [][IF CreationStep
       THEN /\ history' =
                 <<[flight_number |-> Head(channel).flight_number,
                    route |-> ExpectedRoute(Head(channel).schedule)]>>
                 \o Others(history, Head(channel).flight_number)
            /\ history_file' = history'
       ELSE should_quit' \/ UNCHANGED <<history, history_file>>
      ]_vars

\* The history holds a route with the placeholder and a route made of an IATA
\* and an ICAO code, the records of both flights carry position data, and the
\* record of flight A has been on the ground.
C30_Witness ==
    /\ history = <<[flight_number |-> <<"B">>, route |-> Some(<<"???", "LHR">>)],
                   [flight_number |-> <<"A">>, route |-> Some(<<"SFO", "EGLL">>)]>>
    /\ Len(tracked_flights) = 2
    /\ \A i \in 1..2 : tracked_flights[i].icao24 # ""
    /\ tracked_flights[1].flight_number = <<"A">>
    /\ tracked_flights[1].status = "OnGround"
    /\ tracked_flights[1].altitude_ft = None


\* The handling of the head of the channel is that of a search result whose
\* position call failed and whose schedule call gave nothing.
FailedSearchStep ==
    /\ RecvStep
    /\ Head(channel).kind = "FlightSearch"
    /\ ~Head(channel).position.ok
    /\ Head(channel).schedule = None

\* C31: an initial lookup whose position call fails and whose schedule call
\* yields nothing creates no record: the tracked collection, the selection
\* and the history are unchanged, and the error message shown to the user is
\* the one of the position error.
C31_FailedSearchCreatesNothing ==
    [][FailedSearchStep =>
          /\ UNCHANGED <<tracked_flights, selected_index, history, history_file>>
          /\ last_error' =
                 Some(CASE Head(channel).position.err = "RateLimited" ->
                               "API rate limit reached. Try again later."
                        [] Head(channel).position.err = "Network" ->
                               "Network error. Check your connection."
                        [] Head(channel).position.err = "Parse" ->
                               "Failed to parse flight data.")
      ]_vars

\* An error is shown, no flight has ever been added, and nothing is pending.
C31_Witness ==
    /\ ~should_quit
    /\ last_error = Some("API rate limit reached. Try again later.")
    /\ tracked_flights = <<>>
    /\ selected_index = None
    /\ history = <<>>
    /\ history_file = <<>>
    /\ ~loading
    /\ channel = <<>>


\* The handling of the head of the channel calls add_flight for a flight
\* number that is tracked.
DuplicateSearchStep ==
    /\ RecvStep
    /\ Head(channel).kind = "FlightSearch"
    /\ RecordsOf(tracked_flights, Head(channel).flight_number) # {}
    /\ Head(channel).position.ok \/ IsSome(Head(channel).schedule)

C33_LoadingMeansWorkOutstanding ==
    (~should_quit /\ loading) => (tasks # EmptyBag \/ channel # <<>>)


\* C34: should_update is false whenever no flight is tracked or loading is
\* true; otherwise it is true exactly when no provider call has been recorded
\* or at least update_interval_secs seconds have passed since last_api_call.
\* last_api_call is reset by every refresh trigger and by every add of a
\* record, and the tick triggers a refresh (the only one possible in input
\* mode) only when should_update holds.
C34_ShouldUpdate ==
    /\ [](should_update <=>
              /\ tracked_flights # <<>>
              /\ ~loading
              /\ (last_api_call = None \/ Unwrap(last_api_call) >= 30))
    /\ [][/\ (TriggerStep \/ CreationStep) => last_api_call' = Some(0)
          /\ (TriggerStep /\ mode = "Input") =>
                 /\ tracked_flights # <<>>
                 /\ (last_api_call = None \/ Unwrap(last_api_call) >= 30)
         ]_vars

\* A flight is tracked, nothing is loading, and the last call is 30 seconds old.
C34_Witness ==
    /\ ~should_quit
    /\ tracked_flights # <<>>
    /\ ~loading
    /\ last_api_call = Some(30)
    /\ should_update
    /\ mode = "Input"


\* The step in which a lookup returns an error of its request.
LookupFailsStep ==
    /\ client_last'.phase = "fetched"
    /\ ~client_last'.result.ok
    /\ BagCardinality(lookups') < BagCardinality(lookups)

RefreshResultAtHead(tracked) ==
    /\ ~should_quit
    /\ channel # <<>>
    /\ Head(channel).kind = "FlightUpdate"
    /\ (RecordsOf(tracked_flights, Head(channel).flight_number) # {}) = tracked

\* C36: a refresh result that succeeds with no data for a tracked flight
\* changes nothing of the tracked records but the last_updated of that record:
\* its status, icao24, callsign and every position field keep their values;
\* a refresh result that is an error changes no tracked record at all.
C36_NoDataRefreshKeepsRecord ==
    [][(RecvStep /\ RefreshResultAtHead(TRUE)) =>
          /\ (Head(channel).position.ok /\ Head(channel).position.val = None) =>
                 /\ Len(tracked_flights') = Len(tracked_flights)
                 /\ \A i \in 1..Len(tracked_flights) :
                        IF tracked_flights[i].flight_number = Head(channel).flight_number
                        THEN tracked_flights'[i] =
                                 [tracked_flights[i] EXCEPT !.last_updated = Some(UtcNow)]
                        ELSE tracked_flights'[i] = tracked_flights[i]
          /\ ~Head(channel).position.ok => tracked_flights' = tracked_flights
      ]_vars

\* A refresh result with no data is about to be handled for a tracked flight
\* that is in the air.
C36_Witness ==
    /\ RefreshResultAtHead(TRUE)
    /\ Head(channel).position.ok
    /\ Head(channel).position.val = None
    /\ \E i \in RecordsOf(tracked_flights, Head(channel).flight_number) :
           /\ tracked_flights[i].status = "EnRoute"
           /\ tracked_flights[i].icao24 # ""
           /\ IsSome(tracked_flights[i].altitude_ft)

\* C37: a refresh result that arrives for an identifier that is no longer
\* tracked leaves the tracked collection, the selection and the history
\* unchanged: the record is not created again.
C37_StaleRefreshIgnored ==
    [][(RecvStep /\ RefreshResultAtHead(FALSE)) =>
          UNCHANGED <<tracked_flights, selected_index, history, history_file>>
      ]_vars

\* A refresh result with data is about to be handled for a flight that was
\* removed after the lookup was spawned; another flight is tracked.
C37_Witness ==
    /\ RefreshResultAtHead(FALSE)
    /\ Head(channel).position.ok
    /\ IsSome(Head(channel).position.val)
    /\ tracked_flights # <<>>
    /\ \E i \in 1..Len(history) : history[i].flight_number = Head(channel).flight_number


\* A step of remove_selected_flight that removes a record.
RemovalStep == KeyRemove /\ tracked_flights' # tracked_flights

\* C38: after any sequence of add_flight, remove_selected_flight, select_next,
\* select_previous and update_flight the selection is absent exactly when no
\* flight is tracked, and otherwise it is an index strictly below the number
\* of tracked flights; add_flight selects the record it adds, and removing the
\* selected record keeps the same index or moves to the new last index.
C38_SelectionInBounds ==
    /\ [](/\ selected_index = None <=> tracked_flights = <<>>
          /\ IsSome(selected_index) => Unwrap(selected_index) < Len(tracked_flights))
    /\ [][/\ CreationStep =>
                 /\ Len(tracked_flights') = Len(tracked_flights) + 1
                 /\ selected_index' = Some(Len(tracked_flights') - 1)
          /\ RemovalStep =>
                 /\ tracked_flights' = RemoveAt(tracked_flights, Unwrap(selected_index))
                 /\ tracked_flights' # <<>> =>
                        \/ selected_index' = selected_index
                        \/ selected_index' = Some(Len(tracked_flights') - 1)
         ]_vars

\* Two flights were added and one of them was removed: the other one is
\* selected.
C38_Witness ==
    /\ ~should_quit
    /\ Len(history) = 2
    /\ Len(tracked_flights) = 1
    /\ selected_index = Some(0)


\* C39: normalize_callsign is idempotent: applied to its own result it
\* returns that result, for every input, the inputs without a digit included.
C39_NormalizeIdempotent ==
    call.fn = "normalize_callsign" =>
        normalize_callsign(call.output) = call.output


\* The same restricted to the inputs that hold a digit.
IdempotentWithDigit ==
    (/\ call.fn = "normalize_callsign"
     /\ \E i \in 1..Len(call.input) : call.input[i] \in Digits) =>
        normalize_callsign(call.output) = call.output

====
